---- MODULE Spec2Model ----
(***************************************************************************)
(* Model of the stock-analysis pipeline of                                 *)
(* src/src/component/GoogleStockAnalysis.jsx: the cleaning engine          *)
(* (cleanData) and the indicator engine (calculateTechnicalIndicators /    *)
(* indicators).                                                            *)
(*                                                                         *)
(* JavaScript values are modelled as integers: a number is a natural, and  *)
(* null, undefined and NaN are the negative sentinels below.  A record is  *)
(* [date, close, volume]; open/high/low are never read or written by the   *)
(* modelled code (they travel in the spread copy) and are left out.        *)
(* An array of objects is a sequence; the objects of the caller's array    *)
(* `raw` are identified with their positions, so that writes through the   *)
(* shallow copy `cleaned = [...rawData]` land in `raw`.  (generateStockData *)
(* pushes one object twice; the filter drops the second reference, so the  *)
(* cleaned series is the same as with a distinct duplicate object.)        *)
(***************************************************************************)
EXTENDS Integers, Sequences, FiniteSets, TLC

\* ---------------------------------------------------------------- bounds
MaxIndLen == 52       \* longest series handed to the indicator engine
WaveMod == 7          \* closes of a wave series are 0..WaveMod-1
MaxWave == 2          \* linear and quadratic coefficients of a wave series
MaxStep == 2          \* step of a rising or falling series
MaxRawLen == 3        \* longest raw series with free dates, closes and volumes
MaxDate == 2          \* dates are 1..MaxDate in those series
MaxSeriesLen == 5     \* longest raw series with distinct ascending dates
BigClose == 9         \* the extreme close value of the input domain

\* ------------------------------------------------------- JavaScript values
Null == -1
Undefined == -2
NaN == -3

\* ToNumber as applied by the operators - and / : null -> 0, undefined -> NaN
ToNumber(v) == IF v = Null THEN 0 ELSE IF v = Undefined THEN NaN ELSE v

\* Math.abs(a - b)
AbsDiff(a, b) ==
  LET x == ToNumber(a)
      y == ToNumber(b)
  IN IF x = NaN \/ y = NaN THEN NaN ELSE IF x >= y THEN x - y ELSE y - x

\* the guard left out: the value is used as it is
MutNoGuard(v) == v

\* v || 1 : 0, NaN, undefined and null are falsy
OrOne(v) == IF v = 0 \/ v = NaN \/ v = Undefined \/ v = Null THEN 1 ELSE v

\* x == null (loose equality: null or undefined)
IsNullish(v) == v = Null \/ v = Undefined

\* ----------------------------------------------------------- sort / median
\* [...a].sort((a, b) => a - b): a stable sort on the numeric key.  The arrays
\* sorted by cleanData hold numbers and null only.
RECURSIVE InsertSorted(_, _)
InsertSorted(x, s) ==
  IF s = <<>> THEN <<x>>
  ELSE IF ToNumber(Head(s)) <= ToNumber(x) THEN <<Head(s)>> \o InsertSorted(x, Tail(s))
  ELSE <<x>> \o s

RECURSIVE SortAsc(_)
SortAsc(s) ==
  IF s = <<>> THEN <<>>
  ELSE InsertSorted(s[Len(s)], SortAsc(SubSeq(s, 1, Len(s) - 1)))

\* sorted[Math.floor(sorted.length / 2)] : undefined on an empty array
MidOfSorted(s) == IF s = <<>> THEN Undefined ELSE SortAsc(s)[(Len(s) \div 2) + 1]

\* -------------------------------------------------------------- cleanData
Row(d, c, v) == [date |-> d, close |-> c, volume |-> v]

\* a filter that never records the dates it has seen
RECURSIVE MutDedupNoSeen(_, _, _, _, _)
MutDedupNoSeen(rows, i, seen, kept, dups) ==
  IF i > Len(rows) THEN [kept |-> kept, duplicates |-> dups]
  ELSE IF rows[i].date \in seen
       THEN MutDedupNoSeen(rows, i + 1, seen, kept, dups + 1)
       ELSE MutDedupNoSeen(rows, i + 1, seen, Append(kept, i), dups)

\* remove duplicates by date: the filter callback run over the array in order,
\* with the Set `seen`.  Yields the kept objects (positions in the caller's
\* array) and issues.duplicates.
RECURSIVE DedupLoop(_, _, _, _, _)
DedupLoop(rows, i, seen, kept, dups) ==
  IF i > Len(rows) THEN [kept |-> kept, duplicates |-> dups]
  ELSE IF rows[i].date \in seen
       THEN DedupLoop(rows, i + 1, seen, kept, dups + 1)
       ELSE DedupLoop(rows, i + 1, seen \cup {rows[i].date}, Append(kept, i), dups)

Dedup(rows) == DedupLoop(rows, 1, {}, <<>>, 0)

\* the objects an array of references points to
Deref(heap, refs) == [k \in 1..Len(refs) |-> heap[refs[k]]]

\* a forward-fill iteration whose guard starts one record late (i > 1)
MutFillStepLate(heap, refs, k) ==
  LET fc == IsNullish(heap[refs[k]].close) /\ k > 2
      h1 == IF fc THEN [heap EXCEPT ![refs[k]].close = heap[refs[k - 1]].close] ELSE heap
      fv == IsNullish(h1[refs[k]].volume) /\ k > 2
      h2 == IF fv THEN [h1 EXCEPT ![refs[k]].volume = h1[refs[k - 1]].volume] ELSE h1
  IN [heap |-> h2, nulls |-> (IF fc THEN 1 ELSE 0) + (IF fv THEN 1 ELSE 0)]

\* a forward-fill iteration that fills close and forgets volume
MutFillStepCloseOnly(heap, refs, k) ==
  LET fc == IsNullish(heap[refs[k]].close) /\ k > 1
      h1 == IF fc THEN [heap EXCEPT ![refs[k]].close = heap[refs[k - 1]].close] ELSE heap
  IN [heap |-> h1, nulls |-> IF fc THEN 1 ELSE 0]

\* one iteration of the forward-fill loop (0-based i > 0 is k > 1 here): the
\* assignments go to the objects themselves.
FillStep(heap, refs, k) ==
  LET fc == IsNullish(heap[refs[k]].close) /\ k > 1
      h1 == IF fc THEN [heap EXCEPT ![refs[k]].close = heap[refs[k - 1]].close] ELSE heap
      fv == IsNullish(h1[refs[k]].volume) /\ k > 1
      h2 == IF fv THEN [h1 EXCEPT ![refs[k]].volume = h1[refs[k - 1]].volume] ELSE h1
  IN [heap |-> h2, nulls |-> (IF fc THEN 1 ELSE 0) + (IF fv THEN 1 ELSE 0)]

\* a forward fill that copies from the array as it stood before the loop, so a
\* value filled in one iteration is not seen by the next
MutFillFromSnapshot(heap, refs, k, nulls) ==
  LET Hit(f) == {j \in 2..Len(refs) : IsNullish(heap[refs[j]][f])}
      New(i, f) ==
        IF \E j \in Hit(f) : refs[j] = i
        THEN heap[refs[(CHOOSE j \in Hit(f) : refs[j] = i) - 1]][f]
        ELSE heap[i][f]
  IN [heap |-> [i \in DOMAIN heap |->
                  [heap[i] EXCEPT !.close = New(i, "close"), !.volume = New(i, "volume")]],
      nulls |-> nulls + Cardinality(Hit("close")) + Cardinality(Hit("volume"))]

RECURSIVE FillLoop(_, _, _, _)
FillLoop(heap, refs, k, nulls) ==
  IF k > Len(refs) THEN [heap |-> heap, nulls |-> nulls]
  ELSE LET st == FillStep(heap, refs, k)
       IN FillLoop(st.heap, refs, k + 1, nulls + st.nulls)

Closes(rows) == [k \in 1..Len(rows) |-> rows[k].close]

\* the modified z-score |close - median| / mad, kept as the pair (dev, mad)
ZThresholdTimes2 == 7

ZIsNaN(dev, mad) == dev = NaN \/ mad = NaN \/ (dev = 0 /\ mad = 0)

\* z > 3.5 (false for NaN, true for Infinity)
ZExceeds(dev, mad) ==
  IF ZIsNaN(dev, mad) THEN FALSE
  ELSE IF mad = 0 THEN TRUE
  ELSE 2 * dev > ZThresholdTimes2 * mad

\* cleaned.slice(Math.max(0, idx - 2), Math.min(cleaned.length, idx + 3))
Window(rows, k) ==
  LET lo == IF k - 2 < 1 THEN 1 ELSE k - 2
      hi == IF k + 2 > Len(rows) THEN Len(rows) ELSE k + 2
  IN SubSeq(rows, lo, hi)

WinMedian(rows, k) == MidOfSorted(Closes(Window(rows, k)))

\* an outlier pass that writes each correction into the array it reads, so the
\* window of a later record sees the corrected closes of the earlier ones
RECURSIVE MutOutlierInPlace(_, _, _, _, _, _)
MutOutlierInPlace(cl, median, mad, k, acc, cnt) ==
  IF k > Len(cl) THEN [rows |-> acc, outliers |-> cnt]
  ELSE IF ZExceeds(AbsDiff(cl[k].close, median), mad)
       THEN MutOutlierInPlace(cl, median, mad, k + 1,
              Append(acc, [cl[k] EXCEPT !.close =
                             WinMedian(acc \o SubSeq(cl, k, Len(cl)), k)]), cnt + 1)
       ELSE MutOutlierInPlace(cl, median, mad, k + 1, Append(acc, cl[k]), cnt)

\* an outlier pass that counts a correction only when it changes the close
RECURSIVE MutOutlierCountChanged(_, _, _, _, _, _)
MutOutlierCountChanged(cl, median, mad, k, acc, cnt) ==
  IF k > Len(cl) THEN [rows |-> acc, outliers |-> cnt]
  ELSE IF ZExceeds(AbsDiff(cl[k].close, median), mad)
       THEN MutOutlierCountChanged(cl, median, mad, k + 1,
              Append(acc, [cl[k] EXCEPT !.close = WinMedian(cl, k)]),
              IF WinMedian(cl, k) = cl[k].close THEN cnt ELSE cnt + 1)
       ELSE MutOutlierCountChanged(cl, median, mad, k + 1, Append(acc, cl[k]), cnt)

\* the map callback of the outlier pass, applied in index order; `cl` is the
\* array `cleaned` as it stands before the map (the callback's closure reads
\* it, the result is assigned only when the map has finished).
RECURSIVE OutlierLoop(_, _, _, _, _, _)
OutlierLoop(cl, median, mad, k, acc, cnt) ==
  IF k > Len(cl) THEN [rows |-> acc, outliers |-> cnt]
  ELSE IF ZExceeds(AbsDiff(cl[k].close, median), mad)
       THEN OutlierLoop(cl, median, mad, k + 1,
                        Append(acc, [cl[k] EXCEPT !.close = WinMedian(cl, k)]), cnt + 1)
       ELSE OutlierLoop(cl, median, mad, k + 1, Append(acc, cl[k]), cnt)

\* cleanData(rawData): the returned {cleaned, issues}, the caller's objects as
\* the call leaves them (heap), and the values of its locals.
CleanDataOf(rawData) ==
  LET dd == Dedup(rawData)
      ff == FillLoop(rawData, dd.kept, 1, 0)
      cl == Deref(ff.heap, dd.kept)
      closes == Closes(cl)
      median == MidOfSorted(closes)
      deviations == [k \in 1..Len(closes) |-> AbsDiff(closes[k], median)]
      mad == OrOne(MidOfSorted(deviations))
      oo == OutlierLoop(cl, median, mad, 1, <<>>, 0)
  IN [heap |-> ff.heap,
      deduped |-> Deref(rawData, dd.kept),
      filled |-> cl,
      cleaned |-> oo.rows,
      issues |-> [nulls |-> ff.nulls, duplicates |-> dd.duplicates, outliers |-> oo.outliers],
      median |-> median,
      mad |-> mad,
      deviations |-> deviations]

\* ------------------------------------------------------------------ state
VARIABLES
  pc,        \* the step the modelled code is at
  raw,       \* the caller's array and its objects, as they stand now
  rawIn,     \* the value of that array when cleanData was called
  deduped,   \* local `cleaned` after the duplicate filter
  filled,    \* local `cleaned` after the forward-fill loop
  loc,       \* locals median, mad, deviations of the outlier pass
  cleaned,   \* the returned cleaned series
  issues,    \* the returned report {nulls, duplicates, outliers}
  cleaned2,  \* cleaned series returned by cleanData(cleaned)
  issues2,   \* report of that second call
  arr,       \* the series handed to the indicator engine
  ran,       \* the indicator engines that have run on arr
  enriched,  \* result of calculateTechnicalIndicators(arr)
  enr,       \* result of indicators(arr)
  series,    \* the cleaned series handed to the model stage
  fit,       \* what the model stage computed from series
  signal,    \* result of generateSignal(enr)
  app,       \* the real-data component's state (the useState cells)
  runs,      \* the invocations of the real-data effect, each with its position
  net,       \* the network requests issued so far, in order
  hasKey     \* whether VITE_ALPHA_VANTAGE_KEY is configured

cleanVars == <<raw, rawIn, deduped, filled, loc, cleaned, issues, cleaned2, issues2>>
indVars == <<arr, ran, enriched, enr>>
modelVars == <<series, fit>>
pipeVars == <<app, runs, net, hasKey>>
vars == <<pc, cleanVars, indVars, modelVars, signal, pipeVars>>

\* ----------------------------------------------------------------- inputs
Volume == 7
CloseValues == {1, 2, BigClose}

\* short series, any date, close and volume (nulls and repeated dates anywhere)
MessyRows ==
  {Row(d, c, v) : d \in 1..MaxDate, c \in {Null, 1, BigClose}, v \in {Null, Volume}}

MessySeries == UNION {[1..n -> MessyRows] : n \in 0..MaxRawLen}

\* longer series, one record per date in ascending order, closes free
DatedSeries ==
  UNION {{[k \in 1..n |-> Row(k, cs[k], Volume)] : cs \in [1..n -> CloseValues \cup {Null}]} :
           n \in (MaxRawLen + 1)..MaxSeriesLen}

\* closes [10,11,12,null,14,15,16,17,18,100] with a duplicate of record 5 appended
ScenarioCloses == <<10, 11, 12, Null, 14, 15, 16, 17, 18, 100>>

ScenarioRaw ==
  [k \in 1..10 |-> Row(k, ScenarioCloses[k], Volume)] \o <<Row(6, 15, Volume)>>

RawInputs == MessySeries \cup DatedSeries \cup {ScenarioRaw}

NoIssues == [nulls |-> 0, duplicates |-> 0, outliers |-> 0]
NoLocals == [median |-> Undefined, mad |-> Undefined, deviations |-> <<>>]
NoFit == [splitIdx |-> 0]
NoSignal == [action |-> "none"]
EmptyObject == [empty |-> TRUE]

\* the initial values of the component's useState cells
AppInit ==
  [raw |-> <<>>, data |-> <<>>, stats |-> EmptyObject, metrics |-> EmptyObject,
   pred |-> <<>>, testSeries |-> [linear |-> <<>>, polynomial |-> <<>>],
   signal |-> NoSignal, isLoading |-> TRUE, err |-> ""]

\* the real-data component is not mounted
NotMounted ==
  /\ app = AppInit
  /\ runs = <<>>
  /\ net = <<>>
  /\ hasKey = FALSE

Init ==
  /\ pc = "start"
  /\ raw \in RawInputs
  /\ rawIn = raw
  /\ deduped = <<>>
  /\ filled = <<>>
  /\ loc = NoLocals
  /\ cleaned = <<>>
  /\ issues = NoIssues
  /\ cleaned2 = <<>>
  /\ issues2 = NoIssues
  /\ arr = <<>>
  /\ ran = {}
  /\ enriched = <<>>
  /\ enr = <<>>
  /\ series = <<>>
  /\ fit = NoFit
  /\ signal = NoSignal
  /\ NotMounted

\* const { cleaned, issues } = cleanData(raw)
CleanData ==
  /\ pc = "start"
  /\ LET r == CleanDataOf(raw)
     IN /\ raw' = r.heap
        /\ deduped' = r.deduped
        /\ filled' = r.filled
        /\ loc' = [median |-> r.median, mad |-> r.mad, deviations |-> r.deviations]
        /\ cleaned' = r.cleaned
        /\ issues' = r.issues
  /\ pc' = "cleaned"
  /\ UNCHANGED <<rawIn, cleaned2, issues2, indVars, modelVars, signal, pipeVars>>

\* cleanData applied to its own output: clean(clean(x))
CleanAgain ==
  /\ pc = "cleaned"
  /\ LET r == CleanDataOf(cleaned)
     IN /\ cleaned' = r.heap
        /\ cleaned2' = r.cleaned
        /\ issues2' = r.issues
  /\ pc' = "recleaned"
  /\ UNCHANGED <<raw, rawIn, deduped, filled, loc, issues, indVars, modelVars, signal, pipeVars>>

Next == CleanData \/ CleanAgain

Spec == Init /\ [][Next]_vars

\* ------------------------------------------------------- cleaning: claims
Returned == pc # "start"

FirstOccurrence(rows, i) == \A j \in 1..(i - 1) : rows[j].date # rows[i].date

RECURSIVE FilterFirst(_, _)
FilterFirst(rows, n) ==
  IF n = 0 THEN <<>>
  ELSE FilterFirst(rows, n - 1) \o (IF FirstOccurrence(rows, n) THEN <<rows[n]>> ELSE <<>>)

NoSharedDate(rows) ==
  \A i, j \in 1..Len(rows) : i # j => rows[i].date # rows[j].date

\* C1: the deduplication phase returns a series with no two records of the same
\* date, equal to the input filtered to the first occurrence of each date, in
\* the input's order.
Thm_C1 ==
  Returned => /\ NoSharedDate(deduped)
              /\ deduped = FilterFirst(rawIn, Len(rawIn))

Wit_C1 ==
  /\ pc = "cleaned"
  /\ Len(deduped) >= 2
  /\ Len(deduped) < Len(rawIn)
  /\ \E i \in 1..(Len(rawIn) - 1) : ~FirstOccurrence(rawIn, i)

\* C2: cleanData does not mutate its input: after the call every record of the
\* raw series has the close and volume it had before the call.
Orig_C2 == Returned => raw = rawIn

\* C3 (as stated): every record of the returned series has a non-null close and
\* a non-null volume, for any raw input.
Orig_C3 ==
  pc = "cleaned" =>
    \A k \in 1..Len(cleaned) : cleaned[k].close # Null /\ cleaned[k].volume # Null

\* C3 (amended): when the first record of the deduplicated series has a non-null
\* close (resp. volume), every record of the returned series has a non-null
\* close (resp. volume); a null volume in the first record is returned as null.
Thm_C3 ==
  pc = "cleaned" =>
    /\ (deduped # <<>> /\ deduped[1].close # Null)
         => \A k \in 1..Len(cleaned) : cleaned[k].close # Null
    /\ (deduped # <<>> /\ deduped[1].volume # Null)
         => \A k \in 1..Len(cleaned) : cleaned[k].volume # Null
    /\ (deduped # <<>> /\ deduped[1].volume = Null) => cleaned[1].volume = Null

Wit_C3 ==
  /\ pc = "cleaned"
  /\ Len(deduped) >= 2
  /\ deduped[1].close # Null /\ deduped[1].volume # Null
  /\ deduped[2].close = Null /\ deduped[2].volume = Null

NullCloseAt(rows, k) == rows[k].close = Null

\* C4 (as stated): in the returned series a close that was null in the
\* deduplicated input equals the close before it, and a null close at index 0
\* is still null.
Orig_C4 ==
  pc = "cleaned" =>
    /\ \A k \in 2..Len(deduped) :
         NullCloseAt(deduped, k) => cleaned[k].close = cleaned[k - 1].close
    /\ (deduped # <<>> /\ NullCloseAt(deduped, 1)) => cleaned[1].close = Null

ForwardFilled(rows) ==
  /\ \A k \in 2..Len(deduped) :
       NullCloseAt(deduped, k) => rows[k].close = rows[k - 1].close
  /\ (deduped # <<>> /\ NullCloseAt(deduped, 1)) => rows[1].close = Null

\* C4 (amended): the statement holds of the series as the forward-fill phase
\* leaves it, and of the returned series when the outlier pass corrected no
\* record.
Thm_C4 ==
  Returned => /\ ForwardFilled(filled)
              /\ issues.outliers = 0 => ForwardFilled(cleaned)

Wit_C4 ==
  /\ pc = "cleaned"
  /\ Len(deduped) >= 3
  /\ ~NullCloseAt(deduped, 1)
  /\ NullCloseAt(deduped, 2) /\ NullCloseAt(deduped, 3)
  /\ filled[3].close = deduped[1].close
  /\ issues.outliers = 0

Flagged(k) == ZExceeds(AbsDiff(filled[k].close, loc.median), loc.mad)

ScenarioResult ==
  rawIn = ScenarioRaw =>
    /\ issues = [nulls |-> 1, duplicates |-> 1, outliers |-> 1]
    /\ cleaned[4].close = 12
    /\ cleaned[10].close = WinMedian(filled, 10)
    /\ cleaned[10].close # 100

\* C5 (as stated): duplicatesRemoved is input length minus output length,
\* nullsFilled is the number of close/volume fields null in the deduplicated
\* input that hold a non-null value in the output, outliersCorrected is the
\* number of records whose modified z-score exceeds 3.5; the scenario gives 1/1/1.
Orig_C5 ==
  pc = "cleaned" =>
    /\ issues.duplicates = Len(rawIn) - Len(cleaned)
    /\ issues.nulls =
         Cardinality({k \in 1..Len(deduped) :
                        deduped[k].close = Null /\ cleaned[k].close # Null})
         + Cardinality({k \in 1..Len(deduped) :
                        deduped[k].volume = Null /\ cleaned[k].volume # Null})
    /\ issues.outliers = Cardinality({k \in 1..Len(filled) : Flagged(k)})
    /\ ScenarioResult

\* C5 (amended): nullsFilled is the number of close/volume fields that are null
\* in the deduplicated input at an index > 0 (each is counted, whether the value
\* copied into it is null or not); the other two counts and the scenario are as
\* stated.
Thm_C5 ==
  pc = "cleaned" =>
    /\ issues.duplicates = Len(rawIn) - Len(cleaned)
    /\ issues.nulls =
         Cardinality({k \in 2..Len(deduped) : deduped[k].close = Null})
         + Cardinality({k \in 2..Len(deduped) : deduped[k].volume = Null})
    /\ issues.outliers = Cardinality({k \in 1..Len(filled) : Flagged(k)})
    /\ ScenarioResult

Wit_C5 ==
  /\ pc = "cleaned"
  /\ rawIn = ScenarioRaw
  /\ issues.duplicates = 1 /\ issues.nulls = 1 /\ issues.outliers = 1
  /\ cleaned[10].close = 18

\* C6: cleaning is idempotent on a series in which no close exceeds the
\* modified z-score threshold: clean(clean(x)) returns the series clean(x) does.
Thm_C6 == (pc = "recleaned" /\ issues.outliers = 0) => cleaned2 = cleaned

Wit_C6 ==
  /\ pc = "recleaned"
  /\ issues.outliers = 0
  /\ issues.nulls > 0 /\ issues.duplicates > 0
  /\ cleaned2 = cleaned

NoNaNInLocals ==
  /\ loc.median # NaN
  /\ loc.mad # NaN
  /\ \A k \in 1..Len(loc.deviations) :
       loc.deviations[k] # NaN /\ ~ZIsNaN(loc.deviations[k], loc.mad)

\* C7: on an empty series and on a single-record series cleanData completes
\* without NaN: empty gives an empty output and an all-zero report, a single
\* record is returned unchanged with outliersCorrected = 0.
Thm_C7 ==
  (Returned /\ Len(rawIn) <= 1) =>
    /\ cleaned = rawIn
    /\ issues.outliers = 0
    /\ rawIn = <<>> => issues = NoIssues
    /\ NoNaNInLocals

Wit_C7 == pc = "cleaned" /\ Len(rawIn) = 1 /\ cleaned = rawIn /\ loc.mad = 1

\* the flag and the replacement of record k, from the closes before the pass
FlagBefore(k) ==
  LET closes == Closes(filled)
      median == MidOfSorted(closes)
      mad == OrOne(MidOfSorted([j \in 1..Len(closes) |-> AbsDiff(closes[j], median)]))
  IN ZExceeds(AbsDiff(closes[k], median), mad)

\* C8: the outlier pass is independent of processing order: the flag of a
\* record and its replacement (median of the clipped 5-record window) are
\* computed from the closes as they stood before the pass, with one median
\* and one MAD.
Thm_C8 ==
  Returned =>
    /\ Len(cleaned) = Len(filled)
    /\ \A k \in 1..Len(filled) :
         cleaned[k] = IF FlagBefore(k)
                      THEN [filled[k] EXCEPT !.close = WinMedian(filled, k)]
                      ELSE filled[k]

Wit_C8 ==
  /\ pc = "cleaned"
  /\ \E k \in 1..(Len(filled) - 1) :
       /\ FlagBefore(k) /\ FlagBefore(k + 1)
       /\ cleaned[k].close # filled[k].close
       /\ cleaned[k + 1].close = filled[k + 1].close

\* ------------------------------------------------------ exact arithmetic
\* A JavaScript number that is the result of a division is kept as an exact
\* fraction n/d in lowest terms with d > 0; d = 0 is the value undefined.
RECURSIVE GCD(_, _)
GCD(a, b) == IF b = 0 THEN a ELSE GCD(b, a % b)

Abs(x) == IF x < 0 THEN -x ELSE x

Rat(n, d) ==
  LET g == GCD(Abs(n), Abs(d))
      sg == IF d < 0 THEN -1 ELSE 1
  IN [n |-> sg * (n \div g), d |-> sg * (d \div g)]

Undef == [n |-> 0, d |-> 0]
IsDefined(r) == r.d # 0
RInt(k) == [n |-> k, d |-> 1]
RAdd(a, b) == Rat(a.n * b.d + b.n * a.d, a.d * b.d)
RSub(a, b) == Rat(a.n * b.d - b.n * a.d, a.d * b.d)
RMul(a, b) == Rat(a.n * b.n, a.d * b.d)
RDiv(a, b) == Rat(a.n * b.d, a.d * b.n)
RLeq(a, b) == a.n * b.d <= b.n * a.d

\* truthiness of a number-or-undefined: undefined and 0 are falsy
Truthy(r) == IsDefined(r) /\ r.n # 0

\* mu + coef * Math.sqrt(radicand), kept symbolically
Surd(mu, coef, radicand) == [base |-> mu, coef |-> coef, radicand |-> radicand]
UndefSurd == Surd(Undef, 0, Undef)

\* reduce((s, v) => s + v, 0)
RECURSIVE SumSeq(_)
SumSeq(s) == IF s = <<>> THEN 0 ELSE s[1] + SumSeq(Tail(s))

RECURSIVE RSumSeq(_)
RSumSeq(s) == IF s = <<>> THEN RInt(0) ELSE RAdd(s[1], RSumSeq(Tail(s)))

\* ------------------------------------------------------------- indicators
\* Positions are 1-based here: record k is the code's index i = k - 1.

\* a window that starts one record early (slice(i - n, i + 1)), still divided by n
MutSmaWideWindow(closes, n, k) ==
  IF k >= n THEN Rat(SumSeq(SubSeq(closes, IF k - n < 1 THEN 1 ELSE k - n, k)), n) ELSE Undef

\* a window centred one record ahead (slice(i - n + 2, i + 2)): it reads the
\* record after i when there is one
MutSmaLookAhead(closes, n, k) ==
  IF k >= n
  THEN Rat(SumSeq(SubSeq(closes, IF k < Len(closes) THEN k - n + 2 ELSE k - n + 1,
                                 IF k < Len(closes) THEN k + 1 ELSE k)), n)
  ELSE Undef

\* sma(arr, n, i): i >= n - 1 ? arr.slice(i - (n - 1), i + 1).reduce(+) / n : undefined
sma(closes, n, k) ==
  IF k >= n THEN Rat(SumSeq(SubSeq(closes, k - n + 1, k)), n) ELSE Undef

\* slice(i - 13, i + 1).map((d, j, win) => (j ? d.close - win[j - 1].close : 0))
Changes(closes, k) ==
  LET win == SubSeq(closes, k - 13, k)
  IN [j \in 1..Len(win) |-> IF j > 1 THEN win[j] - win[j - 1] ELSE 0]

\* an RSI that averages the signed changes of the losing days (the `-c` of
\* the losses left out)
MutRsiSignedLoss(closes, k) ==
  IF k >= 15
  THEN LET changes == Changes(closes, k)
           gains == SelectSeq(changes, LAMBDA c : c > 0)
           losses == SelectSeq(changes, LAMBDA c : c < 0)
           avgGain == IF Len(gains) > 0 THEN Rat(SumSeq(gains), 14) ELSE RInt(0)
           avgLoss == IF Len(losses) > 0 THEN Rat(SumSeq(losses), 14) ELSE RInt(0)
           rs == IF avgLoss.n = 0 THEN RInt(100) ELSE RDiv(avgGain, avgLoss)
       IN IF RAdd(RInt(1), rs).n = 0 THEN Undef
          ELSE RSub(RInt(100), RDiv(RInt(100), RAdd(RInt(1), rs)))
  ELSE Undef

\* RSI(14): the block under `if (i >= 14)`
Rsi(closes, k) ==
  IF k >= 15
  THEN LET changes == Changes(closes, k)
           gains == SelectSeq(changes, LAMBDA c : c > 0)
           losses == [j \in 1..Len(SelectSeq(changes, LAMBDA c : c < 0)) |->
                        -(SelectSeq(changes, LAMBDA c : c < 0)[j])]
           avgGain == IF Len(gains) > 0 THEN Rat(SumSeq(gains), 14) ELSE RInt(0)
           avgLoss == IF Len(losses) > 0 THEN Rat(SumSeq(losses), 14) ELSE RInt(0)
           rs == IF avgLoss.n = 0 THEN RInt(100) ELSE RDiv(avgGain, avgLoss)
       IN RSub(RInt(100), RDiv(RInt(100), RAdd(RInt(1), rs)))
  ELSE Undef

\* the Bollinger block under `if (i >= 19 && out.sma20)`: variance of the 20
\* closes around mu = out.sma20
Variance(closes, k, mu) ==
  LET vals == SubSeq(closes, k - 19, k)
  IN RDiv(RSumSeq([j \in 1..Len(vals) |->
                     RMul(RSub(RInt(vals[j]), mu), RSub(RInt(vals[j]), mu))]),
          RInt(20))

Bollinger(closes, k, sma20) ==
  IF k >= 20 /\ Truthy(sma20)
  THEN LET variance == Variance(closes, k, sma20)
       IN [upperBand |-> Surd(sma20, 2, variance),
           lowerBand |-> Surd(sma20, -2, variance),
           volatility |-> Surd(RInt(0), 1, variance)]
  ELSE [upperBand |-> UndefSurd, lowerBand |-> UndefSurd, volatility |-> UndefSurd]

IndicatorRecord(row, s10, s20, s50, rsi, bb) ==
  [date |-> row.date, close |-> row.close, volume |-> row.volume,
   sma10 |-> s10, sma20 |-> s20, sma50 |-> s50, rsi |-> rsi,
   upperBand |-> bb.upperBand, lowerBand |-> bb.lowerBand, volatility |-> bb.volatility]

\* calculateTechnicalIndicators(arr): arr.map((row, i) => ...); a field that
\* is not assigned reads as undefined
CalcRow(rows, k) ==
  LET closes == Closes(rows)
      s10 == IF k >= 10 THEN Rat(SumSeq(Closes(SubSeq(rows, k - 9, k))), 10) ELSE Undef
      s20 == IF k >= 20 THEN Rat(SumSeq(Closes(SubSeq(rows, k - 19, k))), 20) ELSE Undef
      s50 == IF k >= 50 THEN Rat(SumSeq(Closes(SubSeq(rows, k - 49, k))), 50) ELSE Undef
  IN IndicatorRecord(rows[k], s10, s20, s50, Rsi(closes, k), Bollinger(closes, k, s20))

calculateTechnicalIndicators(rows) == [k \in 1..Len(rows) |-> CalcRow(rows, k)]

\* indicators(data): data.map((row, i) => ...) with the helper sma
IndRow(rows, k) ==
  LET closes == Closes(rows)
      s10 == sma(closes, 10, k)
      s20 == sma(closes, 20, k)
      s50 == sma(closes, 50, k)
  IN IndicatorRecord(rows[k], s10, s20, s50, Rsi(closes, k), Bollinger(closes, k, s20))

indicators(rows) == [k \in 1..Len(rows) |-> IndRow(rows, k)]

\* ------------------------------------------------ indicator engine: inputs
\* closes that rise and fall: (a*k + b*k*k) mod WaveMod; a = b = 0 is the
\* constant series 0
Wave(len, a, b) == [k \in 1..len |-> Row(k, (a * k + b * k * k) % WaveMod, Volume)]

\* closes that only rise, only fall, or (step 0) stay the same
Rising(len, step) == [k \in 1..len |-> Row(k, 1 + step * k, Volume)]
Falling(len, step) == [k \in 1..len |-> Row(k, 1 + step * (len - k), Volume)]

IndInputs ==
  UNION {{Wave(len, a, b) : a \in 0..MaxWave, b \in 0..MaxWave}
           \cup {Rising(len, st) : st \in 0..MaxStep}
           \cup {Falling(len, st) : st \in 1..MaxStep} : len \in 0..MaxIndLen}

IndInit ==
  /\ pc = "indicators"
  /\ raw = <<>>
  /\ rawIn = <<>>
  /\ deduped = <<>>
  /\ filled = <<>>
  /\ loc = NoLocals
  /\ cleaned = <<>>
  /\ issues = NoIssues
  /\ cleaned2 = <<>>
  /\ issues2 = NoIssues
  /\ arr \in IndInputs
  /\ ran = {}
  /\ enriched = <<>>
  /\ enr = <<>>
  /\ series = <<>>
  /\ fit = NoFit
  /\ signal = NoSignal
  /\ NotMounted

\* const enriched = calculateTechnicalIndicators(cleaned)
CalculateTechnicalIndicators ==
  /\ pc = "indicators"
  /\ "calc" \notin ran
  /\ enriched' = calculateTechnicalIndicators(arr)
  /\ ran' = ran \cup {"calc"}
  /\ UNCHANGED <<pc, cleanVars, arr, enr, modelVars, signal, pipeVars>>

\* const enr = indicators(rows)
Indicators ==
  /\ pc = "indicators"
  /\ "ind" \notin ran
  /\ enr' = indicators(arr)
  /\ ran' = ran \cup {"ind"}
  /\ UNCHANGED <<pc, cleanVars, arr, enriched, modelVars, signal, pipeVars>>

IndNext == CalculateTechnicalIndicators \/ Indicators

SpecIndicators == IndInit /\ [][IndNext]_vars

\* ----------------------------------------------- indicator engine: claims
BothRan == ran = {"calc", "ind"}

RECURSIVE SumRange(_, _, _)
SumRange(closes, lo, hi) == IF lo > hi THEN 0 ELSE closes[hi] + SumRange(closes, lo, hi - 1)

\* arithmetic mean of closes[lo..hi]
MeanOf(closes, lo, hi) == Rat(SumRange(closes, lo, hi), hi - lo + 1)

SmaField(rec, n) == CASE n = 10 -> rec.sma10 [] n = 20 -> rec.sma20 [] n = 50 -> rec.sma50

SmaIsMean(out) ==
  /\ Len(out) = Len(arr)
  /\ \A n \in {10, 20, 50} : \A k \in 1..Len(out) :
       SmaField(out[k], n) = IF k >= n THEN MeanOf(Closes(arr), k - n + 1, k) ELSE Undef

\* C9: for n in {10, 20, 50} and every index i, sma_n[i] is the arithmetic
\* mean of close[i-n+1..i] when i >= n-1 and undefined when i < n-1 (record k
\* here is index i = k-1), in both indicator engines.
Thm_C9 ==
  /\ "calc" \in ran => SmaIsMean(enriched)
  /\ "ind" \in ran => SmaIsMean(enr)

Wit_C9 ==
  /\ BothRan
  /\ Len(arr) >= 51
  /\ ~IsDefined(enr[49].sma50) /\ ~IsDefined(enriched[49].sma50)
  /\ IsDefined(enr[51].sma50) /\ IsDefined(enriched[51].sma50)
  /\ enr[51].sma50 # enr[50].sma50
  /\ enr[51].sma10 # enr[51].sma20

RsiInRange(out) ==
  \A k \in 1..Len(out) :
    /\ IsDefined(out[k].rsi) <=> k >= 15
    /\ IsDefined(out[k].rsi) => RLeq(RInt(0), out[k].rsi) /\ RLeq(out[k].rsi, RInt(100))

\* C10: at every record where rsi is defined (i >= 14, record k >= 15),
\* 0 <= rsi <= 100, for rising, falling, constant and mixed closes, in both
\* indicator engines.
Thm_C10 ==
  /\ "calc" \in ran => Len(enriched) = Len(arr) /\ RsiInRange(enriched)
  /\ "ind" \in ran => Len(enr) = Len(arr) /\ RsiInRange(enr)

Wit_C10 ==
  /\ BothRan
  /\ Len(arr) >= 16
  /\ enr[15].rsi = RInt(0) /\ enriched[15].rsi = RInt(0)
  /\ arr[1].close > arr[15].close

\* further cases of C10 that the inputs reach: an all-gain window, a constant
\* window, and a mixed window
RsiAllGainReached == BothRan /\ \E k \in 15..Len(arr) :
  /\ \A j \in (k - 12)..k : arr[j].close > arr[j - 1].close
  /\ enr[k].rsi = Rat(10000, 101)
RsiConstantReached == BothRan /\ \E k \in 15..Len(arr) :
  /\ \A j \in (k - 12)..k : arr[j].close = arr[j - 1].close
  /\ enr[k].rsi = Rat(10000, 101)
RsiMixedReached == BothRan /\ \E k \in 15..Len(arr) :
  /\ enr[k].rsi # RInt(0) /\ enr[k].rsi # Rat(10000, 101)

\* RSI over the 14 close-to-close changes close[m] - close[m-1], m = i-13..i
\* (records k-13..k here), each sum divided by 14
RsiOfFourteenChanges(closes, k) ==
  LET changes == [j \in 1..14 |-> closes[k - 14 + j] - closes[k - 15 + j]]
      g == SumSeq(SelectSeq(changes, LAMBDA c : c > 0))
      l == -SumSeq(SelectSeq(changes, LAMBDA c : c < 0))
      rs == IF l = 0 THEN RInt(100) ELSE RDiv(Rat(g, 14), Rat(l, 14))
  IN RSub(RInt(100), RDiv(RInt(100), RAdd(RInt(1), rs)))

\* C11: RSI(14) at index i >= 14 is computed from the 14 most recent
\* close-to-close changes ending at i (so it depends on close[i-14]), gains and
\* losses each summed and divided by 14.
Orig_C11 ==
  /\ "calc" \in ran =>
       \A k \in 15..Len(enriched) : enriched[k].rsi = RsiOfFourteenChanges(Closes(arr), k)
  /\ "ind" \in ran =>
       \A k \in 15..Len(enr) : enr[k].rsi = RsiOfFourteenChanges(Closes(arr), k)

InputFieldsKept(out) ==
  /\ Len(out) = Len(arr)
  /\ \A k \in 1..Len(arr) :
       /\ out[k].date = arr[k].date
       /\ out[k].close = arr[k].close
       /\ out[k].volume = arr[k].volume

\* C12: no look-ahead: output record i is determined by records 0..i alone (the
\* engine run on the prefix 0..i gives the same record i, so two series that
\* agree on 0..i get identical indicator fields at i), and the engine returns
\* one record per input record, in order, with every input field unchanged.
Thm_C12 ==
  /\ "calc" \in ran =>
       /\ InputFieldsKept(enriched)
       /\ \A k \in 1..Len(arr) : enriched[k] = CalcRow(SubSeq(arr, 1, k), k)
  /\ "ind" \in ran =>
       /\ InputFieldsKept(enr)
       /\ \A k \in 1..Len(arr) : enr[k] = IndRow(SubSeq(arr, 1, k), k)

Wit_C12 ==
  /\ BothRan
  /\ Len(arr) >= 51
  /\ arr[Len(arr)].close # arr[Len(arr) - 1].close
  /\ IsDefined(enr[Len(arr) - 1].sma50)
  /\ IsDefined(enr[Len(arr) - 1].volatility.radicand)
  /\ enr[Len(arr) - 1] = IndRow(SubSeq(arr, 1, Len(arr) - 1), Len(arr) - 1)

\* ------------------------------------------- numbers with NaN and Infinity
\* A number is a fraction with d > 0, or one of the three values below.
RNaN == [n |-> 0, d |-> -1]
PosInf == [n |-> 1, d |-> -1]
NegInf == [n |-> -1, d |-> -1]

IsFinite(r) == r.d > 0
IsInf(r) == r = PosInf \/ r = NegInf
Sign(r) == IF r.n > 0 THEN 1 ELSE IF r.n < 0 THEN -1 ELSE 0
InfOfSign(sg) == IF sg > 0 THEN PosInf ELSE NegInf

\* sums and products that divide by the common factors first, so that the
\* intermediate integers stay small
LAdd(a, b) == Rat(a.n * (b.d \div GCD(a.d, b.d)) + b.n * (a.d \div GCD(a.d, b.d)),
                  (a.d \div GCD(a.d, b.d)) * b.d)
LMul(a, b) == Rat((a.n \div GCD(Abs(a.n), b.d)) * (b.n \div GCD(Abs(b.n), a.d)),
                  (a.d \div GCD(Abs(b.n), a.d)) * (b.d \div GCD(Abs(a.n), b.d)))
LDiv(a, b) == LMul(a, Rat(b.d, b.n))

\* a + b
JAdd(a, b) ==
  IF a = RNaN \/ b = RNaN THEN RNaN
  ELSE IF IsInf(a) /\ IsInf(b) THEN (IF a = b THEN a ELSE RNaN)
  ELSE IF IsInf(a) THEN a
  ELSE IF IsInf(b) THEN b
  ELSE LAdd(a, b)

JNeg(a) == IF a = RNaN THEN RNaN ELSE [n |-> -a.n, d |-> a.d]

\* a - b
JSub(a, b) == JAdd(a, JNeg(b))

\* a * b
JMul(a, b) ==
  IF a = RNaN \/ b = RNaN THEN RNaN
  ELSE IF IsInf(a) \/ IsInf(b)
       THEN (IF Sign(a) * Sign(b) = 0 THEN RNaN ELSE InfOfSign(Sign(a) * Sign(b)))
  ELSE LMul(a, b)

\* a / b; a zero divisor is +0 wherever the modelled code divides (a length,
\* a sum of squares)
JDiv(a, b) ==
  IF a = RNaN \/ b = RNaN THEN RNaN
  ELSE IF IsInf(a) THEN (IF IsInf(b) THEN RNaN
                         ELSE InfOfSign(Sign(a) * (IF b.n < 0 THEN -1 ELSE 1)))
  ELSE IF IsInf(b) THEN RInt(0)
  ELSE IF b.n = 0 THEN (IF a.n = 0 THEN RNaN ELSE InfOfSign(Sign(a)))
  ELSE LDiv(a, b)

\* Math.abs(a)
JAbs(a) == IF a = RNaN THEN RNaN ELSE [n |-> Abs(a.n), d |-> a.d]

\* v || 1 on a number
JOrOne(a) == IF a = RNaN \/ (IsFinite(a) /\ a.n = 0) THEN RInt(1) ELSE a

\* reduce((s, v) => s + v, 0) over numbers
RECURSIVE JSum(_)
JSum(s) == IF s = <<>> THEN RInt(0) ELSE JAdd(JSum(SubSeq(s, 1, Len(s) - 1)), s[Len(s)])

\* floor(n * 10^digits / d) for n >= 0, d > 0, one decimal digit at a time
RECURSIVE ScaleFloor(_, _, _)
ScaleFloor(n, d, digits) ==
  IF digits = 0 THEN [q |-> n \div d, r |-> n % d]
  ELSE LET prev == ScaleFloor(n, d, digits - 1)
       IN [q |-> prev.q * 10 + (prev.r * 10) \div d, r |-> (prev.r * 10) % d]

\* floor(sqrt(x)) for x >= 0
RECURSIVE ISqrtIn(_, _, _)
ISqrtIn(x, lo, hi) ==
  IF lo >= hi THEN lo
  ELSE LET mid == (lo + hi + 1) \div 2
       IN IF mid * mid <= x THEN ISqrtIn(x, mid, hi) ELSE ISqrtIn(x, lo, mid - 1)

ISqrt(x) == ISqrtIn(x, 0, IF x < 46340 THEN x ELSE 46340)

RECURSIVE Pow10(_)
Pow10(f) == IF f = 0 THEN 1 ELSE 10 * Pow10(f - 1)

\* x.toFixed(f): the decimal with f digits nearest to x (ties away from zero),
\* kept as the number it denotes; "NaN", "Infinity", "-Infinity" otherwise
ToFixed(x, f) ==
  IF ~IsFinite(x) THEN x
  ELSE LET sf == ScaleFloor(Abs(x.n), x.d, f)
           m == IF 2 * sf.r >= x.d THEN sf.q + 1 ELSE sf.q
       IN Rat(Sign(x) * m, Pow10(f))

\* Math.sqrt(x).toFixed(2): round(100 * sqrt(x)) = (floor(sqrt(40000 x)) + 1) div 2
SqrtToFixed2(x) ==
  IF x = RNaN \/ x = NegInf \/ (IsFinite(x) /\ x.n < 0) THEN RNaN
  ELSE IF x = PosInf THEN PosInf
  ELSE Rat((ISqrt(ScaleFloor(4 * x.n, x.d, 4).q) + 1) \div 2, 100)

\* ------------------------------------------------------ regression models
\* v || 1 on an integer sum (no sentinel values here)
IntOrOne(v) == IF v = 0 THEN 1 ELSE v

\* trainLinearRegression(X, y) (trainLinear(X, y) in the real-data component
\* is the same code)
Dot(u, v) == SumSeq([j \in 1..Len(u) |-> u[j] * v[j]])

trainLinearRegression(X, y) ==
  LET n == Len(X)
      sumX == SumSeq(X)
      sumY == SumSeq(y)
      sumXY == Dot(X, y)
      sumX2 == Dot(X, X)
      denom == IntOrOne(n * sumX2 - sumX * sumX)
      slope == Rat(n * sumXY - sumX * sumY, denom)
      intercept == JDiv(JSub(RInt(sumY), JMul(slope, RInt(sumX))), RInt(n))
  IN [slope |-> slope, intercept |-> intercept]

\* predict: (x) => slope * x + intercept
LinPredict(m, x) == JAdd(JMul(m.slope, RInt(x)), m.intercept)

\* trainPolynomialRegression(X, y) (trainPoly2(X, y) in the real-data
\* component is the same code)
trainPolynomialRegression(X, y) ==
  LET n == Len(X)
      X2 == [j \in 1..Len(X) |-> X[j] * X[j]]
      sx == SumSeq(X)
      sx2 == SumSeq(X2)
      sx3 == Dot(X2, X)
      sx4 == Dot(X2, X2)
      sy == SumSeq(y)
      sxy == Dot(X, y)
      sx2y == Dot(X2, y)
      denom == IntOrOne(sx2 * sx2 - n * sx4)
      a == Rat(sx2y * sx2 - sxy * sx3, denom)
      b == JDiv(JSub(RInt(sxy), JMul(a, RInt(sx2))), RInt(IntOrOne(sx)))
      c == JDiv(JSub(JSub(RInt(sy), JMul(b, RInt(sx))), JMul(a, RInt(sx2))), RInt(n))
  IN [a |-> a, b |-> b, c |-> c]

\* predict: (x) => a * x * x + b * x + c
PolyPredict(m, x) ==
  JAdd(JAdd(JMul(JMul(m.a, RInt(x)), RInt(x)), JMul(m.b, RInt(x))), m.c)

\* evaluateModel(actual, predicted) (evalModel in the real-data component is
\* the same code); the four metrics are the decimals toFixed prints
SquaredErrors(actual, predicted) ==
  [j \in 1..Len(actual) |->
     JMul(JSub(RInt(actual[j]), predicted[j]), JSub(RInt(actual[j]), predicted[j]))]

SsTot(actual) ==
  LET mean == JDiv(RInt(SumSeq(actual)), RInt(Len(actual)))
  IN JSum([j \in 1..Len(actual) |->
             JMul(JSub(RInt(actual[j]), mean), JSub(RInt(actual[j]), mean))])

SsRes(actual, predicted) == JSum(SquaredErrors(actual, predicted))

\* const r2 = 1 - ssRes / ssTot
R2(actual, predicted) == JSub(RInt(1), JDiv(SsRes(actual, predicted), SsTot(actual)))

evaluateModel(actual, predicted) ==
  LET n == Len(actual)
      mse == JDiv(JSum(SquaredErrors(actual, predicted)), RInt(n))
      mae == JDiv(JSum([j \in 1..n |-> JAbs(JSub(RInt(actual[j]), predicted[j]))]), RInt(n))
  IN [mse |-> ToFixed(mse, 2),
      rmse |-> SqrtToFixed2(mse),
      r2 |-> ToFixed(R2(actual, predicted), 4),
      mae |-> ToFixed(mae, 2)]

\* Math.floor(cleaned.length * 0.8)
SplitIdx(n) == (n * 8) \div 10

Horizon == 30

\* a forecast index that starts one step late
MutFutureIdxLate(len, i) == len + i

\* const idx = cleaned.length + i - 1
FutureIdx(len, i) == len + i - 1

\* the model stage of the effect: split, train, predict, evaluate, forecast
ModelStage(rows) ==
  LET splitIdx == SplitIdx(Len(rows))
      train == SubSeq(rows, 1, splitIdx)
      test == SubSeq(rows, splitIdx + 1, Len(rows))
      Xtr == [j \in 1..Len(train) |-> j - 1]
      Ytr == Closes(train)
      Xte == [j \in 1..Len(test) |-> splitIdx + j - 1]
      Yte == Closes(test)
      lin == trainLinearRegression(Xtr, Ytr)
      poly == trainPolynomialRegression(Xtr, Ytr)
      trLin == [j \in 1..Len(Xtr) |-> LinPredict(lin, Xtr[j])]
      teLin == [j \in 1..Len(Xte) |-> LinPredict(lin, Xte[j])]
      trPoly == [j \in 1..Len(Xtr) |-> PolyPredict(poly, Xtr[j])]
      tePoly == [j \in 1..Len(Xte) |-> PolyPredict(poly, Xte[j])]
      ensTrain == [j \in 1..Len(Xtr) |-> JDiv(JAdd(trLin[j], trPoly[j]), RInt(2))]
      ensTest == [j \in 1..Len(Xte) |-> JDiv(JAdd(teLin[j], tePoly[j]), RInt(2))]
      futureIdx == [i \in 1..Horizon |-> FutureIdx(Len(rows), i)]
  IN [splitIdx |-> splitIdx, Xtr |-> Xtr, Ytr |-> Ytr, Xte |-> Xte, Yte |-> Yte,
      lin |-> lin, poly |-> poly,
      trLin |-> trLin, teLin |-> teLin, trPoly |-> trPoly, tePoly |-> tePoly,
      metrics |-> [linear |-> [train |-> evaluateModel(Ytr, trLin),
                               test |-> evaluateModel(Yte, teLin)],
                   polynomial |-> [train |-> evaluateModel(Ytr, trPoly),
                                   test |-> evaluateModel(Yte, tePoly)],
                   ensemble |-> [train |-> evaluateModel(Ytr, ensTrain),
                                 test |-> evaluateModel(Yte, ensTest)]],
      futureIdx |-> futureIdx,
      future |-> [i \in 1..Horizon |->
                    [day |-> i,
                     linear |-> LinPredict(lin, futureIdx[i]),
                     polynomial |-> PolyPredict(poly, futureIdx[i]),
                     ensemble |-> JDiv(JAdd(LinPredict(lin, futureIdx[i]),
                                            PolyPredict(poly, futureIdx[i])), RInt(2))]]]

\* ---------------------------------------------------- the model-stage spec
MaxModelLen == 6
MaxNoisyLen == 3
MaxSlope == 2
MaxNoise == 3

\* close[i] = m * i + k
LinearSeries(len, m, k) == [j \in 1..len |-> Row(j, m * (j - 1) + k, Volume)]

\* close[i] = i * i + k
QuadraticSeries(len, k) == [j \in 1..len |-> Row(j, (j - 1) * (j - 1) + k, Volume)]

NoisySeries(len) ==
  {[j \in 1..len |-> Row(j, c[j], Volume)] : c \in [1..len -> 1..MaxNoise]}

ModelInputs ==
  UNION {{LinearSeries(len, m, 5) : m \in 0..MaxSlope}
         \cup {QuadraticSeries(len, 5)} : len \in 1..MaxModelLen}
  \cup UNION {NoisySeries(len) : len \in 1..MaxNoisyLen}

ModelInit ==
  /\ pc = "models"
  /\ raw = <<>>
  /\ rawIn = <<>>
  /\ deduped = <<>>
  /\ filled = <<>>
  /\ loc = NoLocals
  /\ cleaned = <<>>
  /\ issues = NoIssues
  /\ cleaned2 = <<>>
  /\ issues2 = NoIssues
  /\ arr = <<>>
  /\ ran = {}
  /\ enriched = <<>>
  /\ enr = <<>>
  /\ series \in ModelInputs
  /\ fit = NoFit
  /\ signal = NoSignal
  /\ NotMounted

\* the split, the two trainers, the metrics and the 30-day forecast
TrainAndForecast ==
  /\ pc = "models"
  /\ fit' = ModelStage(series)
  /\ pc' = "modelsDone"
  /\ UNCHANGED <<cleanVars, indVars, series, signal, pipeVars>>

ModelNext == TrainAndForecast

SpecModels == ModelInit /\ [][ModelNext]_vars

Fitted == pc = "modelsDone"

\* --------------------------------------------------------------------- C13
\* C13: the model stage uses one continuous time index.  With N records and
\* s = floor(0.8 N), training uses the first s records at indices 0..s-1,
\* testing the rest at s..N-1, and the forecast has exactly 30 points with
\* day = 1..30 in ascending order, point k evaluating both models at index
\* (N - 1) + k; so the first forecast point is the linear model at the last
\* observed index plus one, and no index is used twice or skipped.
Thm_C13 ==
  Fitted =>
    LET N == Len(series)
        s == fit.splitIdx
    IN /\ 10 * s <= 8 * N /\ 8 * N < 10 * (s + 1)
       /\ fit.Xtr = [j \in 1..s |-> j - 1]
       /\ fit.Ytr = [j \in 1..s |-> series[j].close]
       /\ fit.Xte = [j \in 1..(N - s) |-> s + j - 1]
       /\ fit.Yte = [j \in 1..(N - s) |-> series[s + j].close]
       /\ Len(fit.future) = 30
       /\ \A k \in 1..30 :
            /\ fit.future[k].day = k
            /\ fit.future[k].linear = LinPredict(fit.lin, (N - 1) + k)
            /\ fit.future[k].polynomial = PolyPredict(fit.poly, (N - 1) + k)
       /\ fit.Xtr \o fit.Xte \o fit.futureIdx = [j \in 1..(N + 30) |-> j - 1]

Wit_C13 ==
  /\ Fitted
  /\ Len(series) = 6
  /\ fit.splitIdx = 4
  /\ fit.Xte = <<4, 5>>
  /\ fit.future[1].linear = LinPredict(fit.lin, 6)
  /\ fit.future[1].linear # fit.future[2].linear
  /\ IsFinite(fit.future[30].polynomial)

\* --------------------------------------------------------------------- C14
\* the series lies on the line close[i] = m * i + k
OnLine(rows, m, k) == \A j \in 1..Len(rows) : rows[j].close = m * (j - 1) + k

\* C14: on an exactly linear series close[i] = m * i + k with at least two
\* training records, the linear trainer returns slope m and intercept k, its
\* predictions equal the actual closes at every training and test index, and
\* R2 is 1 on both partitions.
Orig_C14 ==
  (Fitted /\ fit.splitIdx >= 2) =>
    \A m \in 0..MaxSlope : \A k \in {series[1].close} :
      OnLine(series, m, k) =>
        /\ fit.lin.slope = RInt(m)
        /\ fit.lin.intercept = RInt(k)
        /\ \A j \in 1..Len(fit.Xtr) : fit.trLin[j] = RInt(fit.Ytr[j])
        /\ \A j \in 1..Len(fit.Xte) : fit.teLin[j] = RInt(fit.Yte[j])
        /\ fit.metrics.linear.train.r2 = RInt(1)
        /\ fit.metrics.linear.test.r2 = RInt(1)

\* the part of C14 that does not depend on R2
LinearFitExact ==
  (Fitted /\ fit.splitIdx >= 2) =>
    \A m \in 0..MaxSlope : \A k \in {series[1].close} :
      OnLine(series, m, k) =>
        /\ fit.lin.slope = RInt(m)
        /\ fit.lin.intercept = RInt(k)
        /\ \A j \in 1..Len(fit.Xtr) : fit.trLin[j] = RInt(fit.Ytr[j])
        /\ \A j \in 1..Len(fit.Xte) : fit.teLin[j] = RInt(fit.Yte[j])

\* R2 of the linear model is 1 on both partitions of a sloped line whose test
\* partition has two records
LinearR2OneReached ==
  /\ Fitted
  /\ OnLine(series, 2, 5)
  /\ Len(fit.Xte) = 2
  /\ fit.metrics.linear.train.r2 = RInt(1)
  /\ fit.metrics.linear.test.r2 = RInt(1)

\* R2 on a one-record test partition of the line 2 i + 5
LinearR2NaNReached ==
  /\ Fitted
  /\ Len(series) = 3
  /\ OnLine(series, 2, 5)
  /\ fit.teLin = <<RInt(9)>>
  /\ fit.metrics.linear.test.r2 = RNaN

\* --------------------------------------------------------------------- C15
\* sum of x^p * y over the training points (y = 1 for the power sums)
PowerSum(X, y, p) ==
  SumSeq([j \in 1..Len(X) |-> (IF p = 0 THEN 1 ELSE IF p = 1 THEN X[j]
                               ELSE IF p = 2 THEN X[j] * X[j]
                               ELSE IF p = 3 THEN X[j] * X[j] * X[j]
                               ELSE X[j] * X[j] * X[j] * X[j]) * y[j]])

Ones(X) == [j \in 1..Len(X) |-> 1]

\* a * sum x^(p+2) + b * sum x^(p+1) + c * sum x^p = sum x^p y
NormalEquation(m, X, y, p) ==
  JAdd(JAdd(JMul(m.a, RInt(PowerSum(X, Ones(X), p + 2))),
            JMul(m.b, RInt(PowerSum(X, Ones(X), p + 1)))),
       JMul(m.c, RInt(PowerSum(X, Ones(X), p))))
    = RInt(PowerSum(X, y, p))

\* the series lies on the parabola close[i] = q * i * i + m * i + k
OnParabola(rows, q, m, k) ==
  \A j \in 1..Len(rows) : rows[j].close = q * (j - 1) * (j - 1) + m * (j - 1) + k

\* C15: the quadratic trainer returns the (a, b, c) that solve the three
\* normal equations of the degree-2 least-squares fit, so a training
\* partition that is exactly quadratic (or exactly linear) is reproduced
\* exactly.
Orig_C15 ==
  (Fitted /\ fit.splitIdx >= 3) =>
    /\ \A p \in 0..2 : NormalEquation(fit.poly, fit.Xtr, fit.Ytr, p)
    /\ (\E q \in 0..1 : \E m \in 0..MaxSlope : OnParabola(series, q, m, series[1].close))
         => \A j \in 1..Len(fit.Xtr) : fit.trPoly[j] = RInt(fit.Ytr[j])

\* the quadratic trainer on the training closes 5, 7, 9, 11 at x = 0..3
PolyOffLineReached ==
  /\ Fitted
  /\ fit.Ytr = <<5, 7, 9, 11>>
  /\ fit.poly.a = Rat(25, 49)
  /\ fit.trPoly[1] # RInt(5)

\* --------------------------------------------------------------------- C16
\* the six calls of evaluateModel: actual values, predictions, metrics
Evaluations ==
  {[actual |-> fit.Ytr, predicted |-> fit.trLin, metrics |-> fit.metrics.linear.train],
   [actual |-> fit.Yte, predicted |-> fit.teLin, metrics |-> fit.metrics.linear.test],
   [actual |-> fit.Ytr, predicted |-> fit.trPoly, metrics |-> fit.metrics.polynomial.train],
   [actual |-> fit.Yte, predicted |-> fit.tePoly, metrics |-> fit.metrics.polynomial.test]}

\* the sum of squares about the mean is 0: every actual value equals the mean
\* (a one-record or constant partition)
SsTotIsZero(actual) ==
  actual # <<>> /\ \A j \in 1..Len(actual) : actual[j] = actual[1]

\* C16: when the total sum of squares of the actual values is 0 (for example
\* a one-record test partition), the evaluation does not divide by zero: the
\* r2 it returns is never NaN, an infinity, or 0 (it fails or returns a
\* distinct 'undefined' marker instead).
Orig_C16 ==
  Fitted =>
    \A e \in Evaluations :
      SsTotIsZero(e.actual) => e.metrics.r2 \notin {RNaN, PosInf, NegInf, RInt(0)}

\* both outcomes of the division by a zero ssTot are reached
R2DivByZeroReached ==
  /\ Fitted
  /\ \E e \in Evaluations : SsTotIsZero(e.actual) /\ e.metrics.r2 = RNaN
  /\ \E e \in Evaluations : SsTotIsZero(e.actual) /\ e.metrics.r2 = NegInf

\* --------------------------------------------------------------------- C17
AllFinite(xs) == \A j \in 1..Len(xs) : IsFinite(xs[j])

\* C17: for every non-empty series, including N = 1 (empty training
\* partition) and N = 2 (a single training point), both trainers return
\* finite parameters, never NaN or infinite, and every prediction they make
\* is finite.
Orig_C17 ==
  (Fitted /\ Len(series) >= 1) =>
    /\ IsFinite(fit.lin.slope) /\ IsFinite(fit.lin.intercept)
    /\ IsFinite(fit.poly.a) /\ IsFinite(fit.poly.b) /\ IsFinite(fit.poly.c)
    /\ AllFinite(fit.trLin) /\ AllFinite(fit.teLin)
    /\ AllFinite(fit.trPoly) /\ AllFinite(fit.tePoly)
    /\ \A k \in 1..Len(fit.future) :
         IsFinite(fit.future[k].linear) /\ IsFinite(fit.future[k].polynomial)

\* a one-record series: the training partition is empty and the division by
\* n = 0 makes the intercept, c and every prediction NaN
EmptyTrainNaNReached ==
  /\ Fitted
  /\ Len(series) = 1
  /\ fit.Xtr = <<>>
  /\ fit.lin.slope = RInt(0)
  /\ fit.lin.intercept = RNaN
  /\ fit.poly.c = RNaN
  /\ fit.teLin = <<RNaN>>
  /\ fit.future[1].polynomial = RNaN

\* a single training point gives finite parameters
SinglePointFiniteReached ==
  /\ Fitted
  /\ Len(series) = 2
  /\ Len(fit.Xtr) = 1
  /\ IsFinite(fit.lin.intercept)
  /\ IsFinite(fit.poly.c)
  /\ AllFinite(fit.teLin) /\ AllFinite(fit.tePoly)

\* ------------------------------------------------------------ signal engine
\* a < b and a <= b in JavaScript: false when an operand is undefined
JsLt(a, b) == IsDefined(a) /\ IsDefined(b) /\ ~RLeq(b, a)
JsLeq(a, b) == IsDefined(a) /\ IsDefined(b) /\ RLeq(a, b)

RMax(a, b) == IF RLeq(a, b) THEN b ELSE a
RMin(a, b) == IF RLeq(a, b) THEN a ELSE b

\* generateSignal keeps vol, riskPct and targetPct as square roots: the
\* functions below work on the radicand
\* last.volatility || 1
VolOrOne(volatility) ==
  IF Truthy(volatility.radicand) THEN volatility.radicand ELSE RInt(1)

\* the factor 0.5 left out
MutVolNotHalved(volSq) == volSq

\* vol * 0.5
VolTimesHalf(volSq) == RMul(volSq, Rat(1, 4))

\* Math.min(3, Math.max(1, x))
ClampRisk(xSq) == RMin(RInt(9), RMax(RInt(1), xSq))

\* round(base - sqrt(x)) and round(base + sqrt(x)) for an integer base and a
\* fraction x >= 0, ties upward as toFixed does on a positive number
RootFloor(x) == ISqrt((4 * x.n) \div x.d)
RootExact(x) == (4 * x.n) % x.d = 0 /\ RootFloor(x) * RootFloor(x) = (4 * x.n) \div x.d
\* the stop left on the price
MutRoundNoMove(base, x) == base

RoundMinusRoot(base, x) ==
  base - (IF RootExact(x) THEN RootFloor(x) \div 2 ELSE (RootFloor(x) + 1) \div 2)
\* the upper level left on the price
MutRoundUpNoMove(base, x) == base

RoundPlusRoot(base, x) == base + (RootFloor(x) + 1) \div 2

\* +(price * (1 - pct / 100)).toFixed(2) and +(price * (1 + pct / 100)).toFixed(2)
\* for pct = coef * sqrt(sq), price a non-negative whole number of cents
PriceLess(price, coef, sq) ==
  Rat(RoundMinusRoot((100 * price.n) \div price.d,
                     RMul(RMul(price, price), RMul(RInt(coef * coef), sq))), 100)
PriceMore(price, coef, sq) ==
  Rat(RoundPlusRoot((100 * price.n) \div price.d,
                    RMul(RMul(price, price), RMul(RInt(coef * coef), sq))), 100)

\* x?.toFixed(f)
OptFixed(x, f) == IF IsDefined(x) THEN ToFixed(x, f) ELSE Undef

\* BUY checked after SELL, so that BUY wins when both fire
MutActionBuyLast(bullish, bearish) ==
  IF bullish THEN "BUY" ELSE IF bearish THEN "SELL" ELSE "HOLD"

\* let action = "HOLD"; if (smaBull || rsiBuy) action = "BUY";
\* if (smaBear || rsiSell) action = "SELL"
ActionOf(bullish, bearish) ==
  IF bearish THEN "SELL" ELSE IF bullish THEN "BUY" ELSE "HOLD"

\* the four rules of generateSignal, by their truthiness
RsiBuy(last) == IsDefined(last.rsi) /\ JsLt(last.rsi, RInt(35))
RsiSell(last) == IsDefined(last.rsi) /\ JsLt(RInt(65), last.rsi)
SmaBull(last, prev) ==
  /\ Truthy(last.sma20) /\ Truthy(last.sma50)
  /\ JsLt(last.sma50, last.sma20) /\ JsLeq(prev.sma20, prev.sma50)
SmaBear(last, prev) ==
  /\ Truthy(last.sma20) /\ Truthy(last.sma50)
  /\ JsLt(last.sma20, last.sma50) /\ JsLeq(prev.sma50, prev.sma20)

\* reading last.rsi of an empty array, or prev.sma20 of a one-record array
\* once the && chain gets that far, throws a TypeError
SignalThrows(rows) ==
  \/ Len(rows) = 0
  \/ /\ Len(rows) = 1
     /\ Truthy(rows[1].sma20) /\ Truthy(rows[1].sma50)
     /\ rows[1].sma20 # rows[1].sma50

\* generateSignal(rows), for rows on which it does not throw
generateSignal(rows) ==
  LET n == Len(rows)
      last == rows[n]
      prev == IF n >= 2 THEN rows[n - 1] ELSE [sma20 |-> Undef, sma50 |-> Undef]
      rsiBuy == RsiBuy(last)
      rsiSell == RsiSell(last)
      smaBull == SmaBull(last, prev)
      smaBear == SmaBear(last, prev)
      action == ActionOf(smaBull \/ rsiBuy, smaBear \/ rsiSell)
      votes == Cardinality({f \in {"rsi", "sma"} :
                              \/ f = "rsi" /\ (rsiBuy \/ rsiSell)
                              \/ f = "sma" /\ (smaBull \/ smaBear)})
      probability == IF 50 + votes * 20 < 90 THEN 50 + votes * 20 ELSE 90
      riskSq == ClampRisk(VolTimesHalf(VolOrOne(last.volatility)))
      price == last.close
  IN [action |-> action,
      probability |-> probability,
      riskPct |-> Surd(RInt(0), 1, riskSq),
      targetPct |-> Surd(RInt(0), 2, riskSq),
      price |-> price,
      stop |-> IF action = "BUY" THEN PriceLess(price, 1, riskSq)
               ELSE PriceMore(price, 1, riskSq),
      target |-> IF action = "BUY" THEN PriceMore(price, 2, riskSq)
                 ELSE PriceLess(price, 2, riskSq),
      notes |-> [rsi |-> OptFixed(last.rsi, 1),
                 sma20 |-> OptFixed(last.sma20, 2),
                 sma50 |-> OptFixed(last.sma50, 2)]]

\* ------------------------------------------------------- the signal spec
MinSigLen == 50
MaxSigLen == 52
MaxPeak == 1
MaxSigSlope == 2
MaxZig == 3
MaxShortLen == 21
SpikeClose == 4

\* closes that move by s1 a record up to the turning point and by s2 after
\* it, with zig added on every other record, shifted so that the lowest is 1
TwoSlopePath(len, peak, s1, s2, zig) ==
  [j \in 1..len |-> s1 * (IF j < peak THEN j ELSE peak)
                    + s2 * (IF j > peak THEN j - peak ELSE 0) + zig * (j % 2)]

RECURSIVE MinOf(_)
MinOf(xs) ==
  IF Len(xs) = 1 THEN xs[1]
  ELSE LET m == MinOf(Tail(xs)) IN IF xs[1] < m THEN xs[1] ELSE m

TwoSlope(len, peak, s1, s2, zig) ==
  LET path == TwoSlopePath(len, peak, s1, s2, zig)
  IN [j \in 1..len |-> Row(j, path[j] - MinOf(path) + 1, Volume)]

\* a short history on one level
Flat(len, c) == [j \in 1..len |-> Row(j, c, Volume)]

\* closes of 0 but for one record, twenty records before the last
Spike(len, c) == [j \in 1..len |-> Row(j, IF j = len - 20 THEN c ELSE 0, Volume)]

\* the slopes tried before and after the turn
SigSlopes == {-MaxSigSlope, -1, 0, 1, MaxSigSlope}

SigInputs ==
  {TwoSlope(len, 23, s1, s2, zig) :
     len \in {MinSigLen, MinSigLen + 1}, s1 \in SigSlopes, s2 \in SigSlopes,
     zig \in {0, MaxZig}}
  \cup {TwoSlope(len, 23 + 6 * MaxPeak, s1, s2, zig) :
          len \in {MinSigLen, MaxSigLen}, s1 \in SigSlopes, s2 \in SigSlopes,
          zig \in {0, MaxZig}}
  \cup {Flat(len, c) : len \in 0..MaxShortLen, c \in {0, SpikeClose}}
  \cup {Spike(len, c) : len \in MinSigLen..MaxSigLen, c \in 1..SpikeClose}

\* the same kind of series, quoted in cents
CentInputs ==
  {TwoSlope(MinSigLen, 23, s1, s2, zig) :
     s1 \in {0, 1}, s2 \in {-1, 0, MaxSigSlope}, zig \in {0, MaxZig}}

CentsPerDollar == 100

\* The closes of arr are whole numbers of a price unit (dollars, or cents).
\* The indicator engine is linear in the closes (rsi does not depend on the
\* unit), so its records for the closes in dollars are those for the counts,
\* divided by the unit.
FieldInDollars(x, unit) == IF IsDefined(x) THEN RDiv(x, RInt(unit)) ELSE Undef

SurdInDollars(x, unit) ==
  IF IsDefined(x.radicand)
  THEN Surd(RDiv(x.base, RInt(unit)), x.coef, RDiv(x.radicand, RInt(unit * unit)))
  ELSE UndefSurd

InDollars(rows, unit) ==
  [k \in 1..Len(rows) |->
     [date |-> rows[k].date, close |-> Rat(rows[k].close, unit), volume |-> rows[k].volume,
      sma10 |-> FieldInDollars(rows[k].sma10, unit),
      sma20 |-> FieldInDollars(rows[k].sma20, unit),
      sma50 |-> FieldInDollars(rows[k].sma50, unit),
      rsi |-> rows[k].rsi,
      upperBand |-> SurdInDollars(rows[k].upperBand, unit),
      lowerBand |-> SurdInDollars(rows[k].lowerBand, unit),
      volatility |-> SurdInDollars(rows[k].volatility, unit)]]

SigInit ==
  /\ pc = "signal"
  /\ raw = <<>>
  /\ rawIn = <<>>
  /\ deduped = <<>>
  /\ filled = <<>>
  /\ loc = NoLocals
  /\ cleaned = <<>>
  /\ issues = NoIssues
  /\ cleaned2 = <<>>
  /\ issues2 = NoIssues
  /\ \/ arr \in SigInputs /\ enr = InDollars(indicators(arr), 1)
     \/ arr \in CentInputs /\ enr = InDollars(indicators(arr), CentsPerDollar)
  /\ ran = {"ind"}
  /\ enriched = <<>>
  /\ series = <<>>
  /\ fit = NoFit
  /\ signal = NoSignal
  /\ NotMounted

\* setSignal(generateSignal(enr))
GenerateSignal ==
  /\ pc = "signal"
  /\ ~SignalThrows(enr)
  /\ signal' = generateSignal(enr)
  /\ pc' = "signalDone"
  /\ UNCHANGED <<cleanVars, indVars, modelVars, pipeVars>>

\* generateSignal(enr) throws; the effect's catch block takes over
GenerateSignalThrows ==
  /\ pc = "signal"
  /\ SignalThrows(enr)
  /\ pc' = "signalThrew"
  /\ UNCHANGED <<cleanVars, indVars, modelVars, signal, pipeVars>>

SigNext == GenerateSignal \/ GenerateSignalThrows

SpecSignal == SigInit /\ [][SigNext]_vars

Signalled == pc = "signalDone"

\* the last two indicator records; a missing one has no defined field
LastRow == enr[Len(enr)]
PrevRow == IF Len(enr) >= 2 THEN enr[Len(enr) - 1] ELSE [sma20 |-> Undef, sma50 |-> Undef, rsi |-> Undef]

\* the votes as the rules state them, on defined values
RsiBullish == JsLt(LastRow.rsi, RInt(35))
RsiBearish == JsLt(RInt(65), LastRow.rsi)
CrossBullish == JsLeq(PrevRow.sma20, PrevRow.sma50) /\ JsLt(LastRow.sma50, LastRow.sma20)
CrossBearish == JsLeq(PrevRow.sma50, PrevRow.sma20) /\ JsLt(LastRow.sma20, LastRow.sma50)
Bullish == RsiBullish \/ CrossBullish
Bearish == RsiBearish \/ CrossBearish

\* --------------------------------------------------------------------- C18
\* C18: the action is a function of the four votes on the last two records:
\* bullish = rsi < 35 or (previous sma20 <= sma50 and current sma20 > sma50),
\* bearish = rsi > 65 or (previous sma20 >= sma50 and current sma20 < sma50);
\* SELL whenever a bearish vote fires (also when a bullish one fires too),
\* BUY when only bullish votes fire, HOLD when none fires.
Thm_C18 ==
  Signalled =>
    /\ Bearish => signal.action = "SELL"
    /\ (Bullish /\ ~Bearish) => signal.action = "BUY"
    /\ (~Bullish /\ ~Bearish) => signal.action = "HOLD"

\* a bullish RSI vote and a bearish crossover fire together, and SELL wins
Wit_C18 ==
  /\ Signalled
  /\ RsiBullish /\ CrossBearish
  /\ signal.action = "SELL"

\* rsi below 35 on both records and sma20 <= sma50 throughout gives BUY
BuyOnRsiReached ==
  /\ Signalled
  /\ RsiBullish /\ JsLt(PrevRow.rsi, RInt(35))
  /\ JsLeq(PrevRow.sma20, PrevRow.sma50) /\ JsLeq(LastRow.sma20, LastRow.sma50)
  /\ signal.action = "BUY"

BuyOnCrossReached == Signalled /\ CrossBullish /\ ~RsiBullish /\ ~RsiBearish /\ signal.action = "BUY"
SellOnCrossReached == Signalled /\ CrossBearish /\ ~RsiBullish /\ ~RsiBearish /\ signal.action = "SELL"
SellOverBullCrossReached == Signalled /\ CrossBullish /\ RsiBearish /\ signal.action = "SELL"
HoldReached == Signalled /\ IsDefined(LastRow.sma50) /\ ~Bullish /\ ~Bearish /\ signal.action = "HOLD"

\* --------------------------------------------------------------------- C19
FamiliesVoting ==
  Cardinality({f \in {"rsi", "sma"} :
                 \/ f = "rsi" /\ (RsiBullish \/ RsiBearish)
                 \/ f = "sma" /\ (CrossBullish \/ CrossBearish)})

ConfidenceOffZero ==
  (Signalled /\ (IsDefined(LastRow.sma20) => LastRow.sma20.n # 0)
             /\ (IsDefined(LastRow.sma50) => LastRow.sma50.n # 0)) =>
    signal.probability = 50 + 20 * FamiliesVoting

\* an RSI-bullish vote with a bearish crossover gives 90
Confidence90Reached == Signalled /\ RsiBullish /\ CrossBearish /\ signal.probability = 90

\* a bearish crossover onto an sma20 of 0 is not counted
ZeroSmaVoteLostReached ==
  /\ Signalled
  /\ LastRow.sma20 = RInt(0)
  /\ CrossBearish /\ RsiBearish
  /\ signal.probability = 70

\* --------------------------------------------------------------------- C20
\* clamp(x, 1, 3) on the square
ClampSq(xSq) == IF RLeq(xSq, RInt(1)) THEN RInt(1) ELSE IF RLeq(RInt(9), xSq) THEN RInt(9) ELSE xSq

\* C20: for every input, including a last record whose volatility is 0 or
\* undefined, 1 <= riskPct <= 3, riskPct = clamp(0.5 * volatility, 1, 3) (1
\* when there is no volatility), and targetPct = 2 * riskPct.
Thm_C20 ==
  Signalled =>
    LET variance == LastRow.volatility.radicand
        riskSq == signal.riskPct.radicand
    IN /\ signal.riskPct.base = RInt(0) /\ signal.riskPct.coef = 1
       /\ RLeq(RInt(1), riskSq) /\ RLeq(riskSq, RInt(9))
       /\ IsDefined(variance) => riskSq = ClampSq(RDiv(variance, RInt(4)))
       /\ (~IsDefined(variance) \/ variance = RInt(0)) => riskSq = RInt(1)
       /\ signal.targetPct = Surd(RInt(0), 2 * signal.riskPct.coef, riskSq)

\* a volatility between 2 and 6: the risk is half of it, the target twice that
Wit_C20 ==
  /\ Signalled
  /\ IsDefined(LastRow.volatility.radicand)
  /\ ~RLeq(LastRow.volatility.radicand, RInt(4))
  /\ ~RLeq(RInt(36), LastRow.volatility.radicand)
  /\ signal.riskPct.radicand = RDiv(LastRow.volatility.radicand, RInt(4))
  /\ signal.targetPct.coef = 2

RiskOnZeroVolReached ==
  Signalled /\ LastRow.volatility.radicand = RInt(0) /\ signal.riskPct.radicand = RInt(1)
RiskOnNoVolReached ==
  Signalled /\ ~IsDefined(LastRow.volatility.radicand) /\ signal.riskPct.radicand = RInt(1)
RiskCappedReached ==
  Signalled /\ ~RLeq(LastRow.volatility.radicand, RInt(36)) /\ signal.riskPct.radicand = RInt(9)

\* --------------------------------------------------------------------- C21
RLt(a, b) == ~RLeq(b, a)

\* level is the two-decimal rounding of price - move or price + move, where
\* move = price * coef * riskPct / 100: the distance k in cents between level
\* and price satisfies k - 1/2 <= 100 * move <= k + 1/2 (compared on the
\* squares, times 4)
Move4Sq(coef) ==
  RMul(RInt(4), RMul(RMul(signal.price, signal.price),
                     RMul(RInt(coef * coef), signal.riskPct.radicand)))

RoundedMove(level, coef) ==
  LET d == IF RLeq(level, signal.price) THEN RSub(signal.price, level)
           ELSE RSub(level, signal.price)
      k == RMul(RInt(100), d).n
      x4 == Move4Sq(coef)
      fl == x4.n \div x4.d
      cl == IF x4.n % x4.d = 0 THEN fl ELSE fl + 1
  IN /\ RMul(RInt(100), d).d = 1
     /\ 2 * k - 1 <= 0 \/ (2 * k - 1) * (2 * k - 1) <= fl
     /\ cl <= (2 * k + 1) * (2 * k + 1)

\* C21: for a positive reference close, BUY gives stop < price < target and
\* SELL gives target < price < stop.
Orig_C21 ==
  (Signalled /\ RLt(RInt(0), signal.price)) =>
    /\ signal.action = "BUY" =>
         RLt(signal.stop, signal.price) /\ RLt(signal.price, signal.target)
    /\ signal.action = "SELL" =>
         RLt(signal.target, signal.price) /\ RLt(signal.price, signal.stop)

\* C21, amended: the same for a reference close above 0.50, where 1% of the
\* price is more than half a cent; stop and target are price * (1 -+ risk%)
\* and price * (1 +- target%) rounded to two decimals.
Thm_C21 ==
  (Signalled /\ RLt(Rat(1, 2), signal.price)) =>
    /\ signal.action = "BUY" =>
         RLt(signal.stop, signal.price) /\ RLt(signal.price, signal.target)
    /\ signal.action = "SELL" =>
         RLt(signal.target, signal.price) /\ RLt(signal.price, signal.stop)
    /\ signal.action \in {"BUY", "SELL"} =>
         RoundedMove(signal.stop, 1) /\ RoundedMove(signal.target, 2)

\* a BUY at a price above 0.50
Wit_C21 ==
  /\ Signalled
  /\ signal.action = "BUY"
  /\ RLt(Rat(1, 2), signal.price)
  /\ RLt(signal.stop, signal.price) /\ RLt(signal.price, signal.target)

\* a SELL at a price between 0.50 and 1.00
SellLevelsReached ==
  /\ Signalled
  /\ signal.action = "SELL"
  /\ RLt(Rat(1, 2), signal.price) /\ RLt(signal.price, RInt(1))
  /\ RLt(signal.target, signal.price) /\ RLt(signal.price, signal.stop)

\* a BUY at 0.01: stop and target both round back to the price
PennyLevelsReached ==
  /\ Signalled
  /\ signal.action = "BUY"
  /\ signal.price = Rat(1, 100)
  /\ signal.stop = signal.price /\ signal.target = signal.price

\* --------------------------------------------------------------------- C22
FieldsDefined(r) ==
  /\ IsDefined(r.rsi) /\ IsDefined(r.sma20) /\ IsDefined(r.sma50)
  /\ IsDefined(r.volatility.radicand)

SufficientHistory ==
  Len(enr) >= 2 /\ FieldsDefined(enr[Len(enr)]) /\ FieldsDefined(enr[Len(enr) - 1])

\* C22: generateSignal fails explicitly whenever it is given fewer than 2
\* indicator records or the last two records lack a defined rsi, sma20, sma50
\* or volatility; it never returns a trade signal computed from undefined
\* fields.
Orig_C22 == Signalled => SufficientHistory

\* a one-record series gets a HOLD signal with levels
OneRecordSignalReached ==
  /\ Signalled
  /\ Len(enr) = 1
  /\ signal.action = "HOLD" /\ signal.probability = 50
  /\ signal.riskPct.radicand = RInt(1)
  /\ signal.notes.rsi = Undef

\* a series shorter than 50 records gets a BUY or SELL from rsi alone
ShortHistorySignalReached ==
  /\ Signalled
  /\ Len(enr) < 50
  /\ ~IsDefined(LastRow.sma50)
  /\ signal.action = "SELL"

\* the only failure is the TypeError on an empty series
OnlyEmptyThrows == pc = "signalThrew" <=> (Len(enr) = 0 /\ pc # "signal")

\* --------------------------------------------------------------------- C30
\* C30: when the action is HOLD, the returned stop and target are the
\* SELL-side levels: stop = price * (1 + riskPct / 100) lies above the
\* reference price and target = price * (1 - targetPct / 100) lies below it;
\* stop is below the price only when the action is BUY.
Orig_C30 ==
  Signalled =>
    /\ signal.action = "HOLD" =>
         RLt(signal.price, signal.stop) /\ RLt(signal.target, signal.price)
    /\ RLt(signal.stop, signal.price) => signal.action = "BUY"

\* C30, amended: the same for a reference close above 0.50, the levels being
\* rounded to two decimals.
Thm_C30 ==
  (Signalled /\ RLt(Rat(1, 2), signal.price)) =>
    /\ signal.action = "HOLD" =>
         /\ RLt(signal.price, signal.stop) /\ RLt(signal.target, signal.price)
         /\ RoundedMove(signal.stop, 1) /\ RoundedMove(signal.target, 2)
    /\ RLt(signal.stop, signal.price) => signal.action = "BUY"

\* a HOLD on full history, with the stop above and the target below the price
Wit_C30 ==
  /\ Signalled
  /\ signal.action = "HOLD"
  /\ SufficientHistory
  /\ RLt(Rat(1, 2), signal.price)
  /\ RLt(signal.price, signal.stop) /\ RLt(signal.target, signal.price)

\* a HOLD at a positive close below 0.50: both levels equal the price
HoldLevelsOnPriceReached ==
  /\ Signalled
  /\ signal.action = "HOLD"
  /\ RLt(RInt(0), signal.price)
  /\ signal.stop = signal.price /\ signal.target = signal.price

\* --------------------------------------------------------------------- C29
BandsDefinedWithSma20(out) ==
  \A k \in 1..Len(out) :
    /\ IsDefined(out[k].sma20) <=> k >= 20
    /\ out[k].upperBand # UndefSurd <=> IsDefined(out[k].sma20)
    /\ out[k].lowerBand # UndefSurd <=> IsDefined(out[k].sma20)
    /\ out[k].volatility # UndefSurd <=> IsDefined(out[k].sma20)

\* C29: in every record of the indicator output, upperBand, lowerBand and
\* volatility are defined if and only if sma20 is defined, that is exactly
\* from index 19 on, whatever the closes are (including a window whose
\* closes average to 0).
Orig_C29 ==
  /\ "calc" \in ran => BandsDefinedWithSma20(enriched)
  /\ "ind" \in ran => BandsDefinedWithSma20(enr)

\* the same on records whose sma20 is not 0
BandsDefinedOffZero ==
  /\ "calc" \in ran =>
       \A k \in 1..Len(enriched) :
         (IsDefined(enriched[k].sma20) => enriched[k].sma20.n # 0) =>
           (enriched[k].volatility # UndefSurd <=> k >= 20)
  /\ "ind" \in ran =>
       \A k \in 1..Len(enr) :
         (IsDefined(enr[k].sma20) => enr[k].sma20.n # 0) =>
           (enr[k].volatility # UndefSurd <=> k >= 20)

\* twenty closes of 0: sma20 is 0 and the bands are missing, in both engines
ZeroWindowNoBandsReached ==
  /\ BothRan
  /\ Len(arr) >= 20
  /\ enriched[20].sma20 = RInt(0) /\ enriched[20].volatility = UndefSurd
  /\ enr[20].sma20 = RInt(0) /\ enr[20].upperBand = UndefSurd

\* ============================================================ data sources
\* src/lib/dataSources.js: Alpha Vantage first, Stooq as the fallback.
MaxDays == 4
MaxQuoteStep == 2

\* one quote per day, the close rising by `step` a day
DailySeries(n, step) == [k \in 1..n |-> Row(k, k * step, Volume)]
NewestFirst(rows) == [k \in 1..Len(rows) |-> rows[Len(rows) + 1 - k]]

\* .sort((a, b) => +new Date(a.date) - +new Date(b.date)), a stable sort
RECURSIVE SortByDate(_)
SortByDate(rows) ==
  IF rows = <<>> THEN <<>>
  ELSE LET last == rows[Len(rows)]
           init == SortByDate(SubSeq(rows, 1, Len(rows) - 1))
           upTo == Cardinality({k \in 1..Len(init) : init[k].date <= last.date})
       IN SubSeq(init, 1, upTo) \o <<last>> \o SubSeq(init, upTo + 1, Len(init))

\* how a call of a source ended: not yet, with an Error, or with rows
Pending == [state |-> "pending", message |-> "", rows |-> <<>>]
Rejected(message) == [state |-> "threw", message |-> message, rows |-> <<>>]
Resolved(rows) == [state |-> "returned", message |-> "", rows |-> rows]

\* what fetch(url) settles to, and the JSON body of Alpha Vantage
AlphaSeries == {NewestFirst(DailySeries(n, q)) : n \in 0..MaxDays, q \in 1..MaxQuoteStep}
AlphaBodies ==
  {[errorMessage |-> e, note |-> n, hasSeries |-> FALSE, series |-> <<>>] :
     e \in {"", "Invalid API call."}, n \in {"", "API call frequency exceeded."}}
    \cup {[errorMessage |-> "", note |-> n, hasSeries |-> TRUE, series |-> ts] :
            n \in {"", "API call frequency exceeded."}, ts \in AlphaSeries}
HttpOk == [ok |-> TRUE, status |-> "200"]
HttpErrors == {[ok |-> FALSE, status |-> "404"], [ok |-> FALSE, status |-> "503"]}

\* fetch rejects, or resolves to an error status, or resolves to a body
Responses(bodies) ==
  {[settled |-> "rejected", http |-> h, body |-> b] :
     h \in {HttpOk}, b \in {CHOOSE b \in bodies : TRUE}}
    \cup {[settled |-> "fulfilled", http |-> h, body |-> b] :
            h \in HttpErrors, b \in {CHOOSE b \in bodies : TRUE}}
    \cup {[settled |-> "fulfilled", http |-> h, body |-> b] : h \in {HttpOk}, b \in bodies}
AlphaResponses == Responses(AlphaBodies)

\* fetchAlphaVantageDaily from its fetch onwards (the key is checked before)
AlphaVantageDaily(resp) ==
  IF resp.settled = "rejected" THEN Rejected("Failed to fetch")
  ELSE IF ~resp.http.ok THEN Rejected("HTTP_" \o resp.http.status)
  ELSE IF resp.body.errorMessage # "" \/ resp.body.note # ""
    THEN Rejected(IF resp.body.errorMessage # "" THEN resp.body.errorMessage
               ELSE resp.body.note)
  ELSE IF ~resp.body.hasSeries THEN Rejected("ALPHA_SHAPE")
  ELSE Resolved(SortByDate(resp.body.series))

\* the CSV text of Stooq: its header line and its data lines
CsvHeader == "Date,Open,High,Low,Close,Volume"
StooqLines ==
  {DailySeries(n, q) : n \in 0..MaxDays, q \in 1..MaxQuoteStep}
    \cup {DailySeries(MaxDays, 1) \o <<Row(MaxDays, MaxDays, Volume)>>,
          <<Row(2, NaN, Volume)>> \o DailySeries(1, 1)}
StooqBodies ==
  {[header |-> "No data", lines |-> <<>>]}
    \cup {[header |-> CsvHeader, lines |-> ls] : ls \in StooqLines}
StooqResponses == Responses(StooqBodies)

\* .filter((d) => !Number.isNaN(d.close))
RECURSIVE CloseIsNumber(_)
CloseIsNumber(lines) ==
  IF lines = <<>> THEN <<>>
  ELSE LET init == CloseIsNumber(SubSeq(lines, 1, Len(lines) - 1))
       IN IF lines[Len(lines)].close = NaN THEN init ELSE Append(init, lines[Len(lines)])

\* fetchStooqDaily from its fetch onwards
StooqDaily(resp) ==
  IF resp.settled = "rejected" THEN Rejected("Failed to fetch")
  ELSE IF ~resp.http.ok THEN Rejected("HTTP_" \o resp.http.status)
  ELSE IF resp.body.header # CsvHeader THEN Rejected("STOOQ_SHAPE")
  ELSE Resolved(SortByDate(CloseIsNumber(resp.body.lines)))

\* ======================================================= real-data pipeline
\* Math.max(...xs) and Math.min(...xs)
RECURSIVE MathMax(_)
MathMax(xs) ==
  IF xs = <<>> THEN NegInf
  ELSE IF Len(xs) = 1 THEN xs[1]
  ELSE RMax(MathMax(SubSeq(xs, 1, Len(xs) - 1)), xs[Len(xs)])

RECURSIVE MathMin(_)
MathMin(xs) ==
  IF xs = <<>> THEN PosInf
  ELSE IF Len(xs) = 1 THEN xs[1]
  ELSE RMin(MathMin(SubSeq(xs, 1, Len(xs) - 1)), xs[Len(xs)])

MathFloor(x) == IF IsFinite(x) THEN RInt(x.n \div x.d) ELSE x

\* rets: the day-to-day relative change of the close
Returns(rows) ==
  [k \in 1..(IF Len(rows) = 0 THEN 0 ELSE Len(rows) - 1) |->
     JDiv(JSub(RInt(rows[k + 1].close), RInt(rows[k].close)), RInt(rows[k].close))]

\* (avgRet / (vol || 1)).toFixed(2), with vol the square root of volSq
SharpeRatio(avgRet, volSq) ==
  IF volSq = RNaN \/ volSq = RInt(0) THEN ToFixed(avgRet, 2)
  ELSE JMul(RInt(Sign(avgRet)), SqrtToFixed2(JDiv(JMul(avgRet, avgRet), volSq)))

\* the object handed to setStats
Stats(rows) ==
  LET closes == [k \in 1..Len(rows) |-> RInt(rows[k].close)]
      vols == [k \in 1..Len(rows) |-> RInt(rows[k].volume)]
      rets == Returns(rows)
      avgRet == JDiv(JSum(rets), RInt(IntOrOne(Len(rets))))
      volSq == JDiv(JSum([k \in 1..Len(rets) |-> JMul(rets[k], rets[k])]),
                    RInt(IntOrOne(Len(rets))))
  IN [totalRecords |-> Len(rows),
      cleanRecords |-> Len(rows),
      issues |-> [nulls |-> 0, duplicates |-> 0, outliers |-> 0],
      avgClose |-> ToFixed(JDiv(JSum(closes), RInt(Len(closes))), 2),
      maxClose |-> ToFixed(MathMax(closes), 2),
      minClose |-> ToFixed(MathMin(closes), 2),
      avgVolume |-> MathFloor(JDiv(JSum(vols), RInt(Len(vols)))),
      avgReturn |-> ToFixed(JMul(avgRet, RInt(100)), 2),
      volatility |-> SqrtToFixed2(JMul(volSq, RInt(10000))),
      sharpeRatio |-> SharpeRatio(avgRet, volSq)]

\* the message of the TypeError generateSignal raises on its first missing record
SignalError(rows) ==
  IF Len(rows) = 0 THEN "Cannot read properties of undefined (reading 'rsi')"
  ELSE "Cannot read properties of undefined (reading 'sma20')"

\* catch (e) { setErr(e.message || "Failed to load data.") }
Catch(a, message) ==
  [a EXCEPT !.err = IF message = "" THEN "Failed to load data." ELSE message]

MutFinallyKeepsLoading(a) == a

\* finally { setIsLoading(false) }
Finally(a) == [a EXCEPT !.isLoading = FALSE]

\* every series fetchRealData can return
IngestedSeries ==
  {AlphaVantageDaily(resp).rows : resp \in AlphaResponses}
    \cup {StooqDaily(resp).rows : resp \in StooqResponses}

\* what steps 2) to 6) of the effect compute from rows: enr, the stats object,
\* the models with their metrics and forecast, and the signal unless
\* generateSignal throws
StagesOf(rows, enrd) ==
  [enr |-> enrd,
   stats |-> Stats(rows),
   ms |-> ModelStage(rows),
   throws |-> SignalThrows(enrd),
   error |-> SignalError(enrd),
   signal |-> IF SignalThrows(enrd) THEN NoSignal ELSE generateSignal(enrd)]

Staged == [rows \in IngestedSeries |-> StagesOf(rows, InDollars(indicators(rows), 1))]

\* the setters of steps 2) to 6), each called where the code calls it, with s
\* what the steps computed from rows; generateSignal comes last
SetResults(a, rows, s) ==
  LET shown == [a EXCEPT !.raw = rows,
                         !.data = s.enr,
                         !.stats = s.stats,
                         !.metrics = [splitIdx |-> s.ms.splitIdx,
                                      linear |-> s.ms.metrics.linear,
                                      polynomial |-> s.ms.metrics.polynomial,
                                      ensemble |-> s.ms.metrics.ensemble],
                         !.testSeries = [linear |-> s.ms.teLin, polynomial |-> s.ms.tePoly],
                         !.pred = s.ms.future]
  IN IF s.throws THEN Catch(shown, s.error) ELSE [shown EXCEPT !.signal = s.signal]

\* the effect's body after `rows` has arrived
Publish(a, rows) == SetResults(a, rows, Staged[rows])

MutNeverFallBack(outcome) == "publish"

\* fetchRealData: try { return await primary } catch (e) { return await secondary }
AfterPrimary(outcome) == IF outcome.state = "threw" THEN "stooq" ELSE "publish"

RunIds == {"first", "second"}
IdleRun == [pc |-> "idle", tried |-> <<>>, alpha |-> Pending, stooq |-> Pending, rows |-> <<>>]

Request(r, source) == [run |-> r, source |-> source]

\* the component mounts; one effect invocation is due
PipeInit ==
  /\ pc = "pipeline"
  /\ raw = <<>>
  /\ rawIn = <<>>
  /\ deduped = <<>>
  /\ filled = <<>>
  /\ loc = NoLocals
  /\ cleaned = <<>>
  /\ issues = NoIssues
  /\ cleaned2 = <<>>
  /\ issues2 = NoIssues
  /\ arr = <<>>
  /\ ran = {}
  /\ enriched = <<>>
  /\ enr = <<>>
  /\ series = <<>>
  /\ fit = NoFit
  /\ signal = NoSignal
  /\ app = AppInit
  /\ runs = [r \in {"first"} |-> IdleRun]
  /\ net = <<>>
  /\ hasKey \in BOOLEAN

\* fetchRealData once the primary has ended with outcome o: its rows go to the
\* effect, which runs to its end; its Error is caught and the secondary asked
AfterAlpha(r, a, o) ==
  IF AfterPrimary(o) = "stooq"
    THEN /\ app' = a
         /\ net' = Append(net, Request(r, "stooq"))
         /\ runs' = [runs EXCEPT ![r].pc = "stooq",
                                ![r].tried = <<"alpha", "stooq">>,
                                ![r].alpha = o]
    ELSE /\ app' = Finally(Publish(a, o.rows))
         /\ net' = net
         /\ runs' = [runs EXCEPT ![r].pc = "done",
                                ![r].tried = <<"alpha">>,
                                ![r].alpha = o,
                                ![r].rows = o.rows]

\* the effect starts: setIsLoading(true), setErr(""), then fetchRealData up to
\* its first fetch (without a key the primary throws before fetching)
RunEffect(r) ==
  /\ runs[r].pc = "idle"
  /\ LET a == [app EXCEPT !.isLoading = TRUE, !.err = ""]
     IN IF hasKey
          THEN /\ app' = a
               /\ net' = Append(net, Request(r, "alpha"))
               /\ runs' = [runs EXCEPT ![r].pc = "alpha", ![r].tried = <<"alpha">>]
          ELSE AfterAlpha(r, a, Rejected("NO_ALPHA_KEY"))
  /\ UNCHANGED <<pc, cleanVars, indVars, modelVars, signal, hasKey>>

\* the primary's fetch settles and fetchAlphaVantageDaily runs to its end
AlphaSettles(r) ==
  /\ runs[r].pc = "alpha"
  /\ \E resp \in AlphaResponses : AfterAlpha(r, app, AlphaVantageDaily(resp))
  /\ UNCHANGED <<pc, cleanVars, indVars, modelVars, signal, hasKey>>

\* the secondary's fetch settles and fetchStooqDaily runs to its end: its rows
\* go to the effect, its Error to the effect's catch
StooqSettles(r) ==
  /\ runs[r].pc = "stooq"
  /\ \E resp \in StooqResponses :
       LET o == StooqDaily(resp)
       IN /\ app' = Finally(IF o.state = "threw" THEN Catch(app, o.message)
                            ELSE Publish(app, o.rows))
          /\ runs' = [runs EXCEPT ![r].pc = "done", ![r].stooq = o, ![r].rows = o.rows]
  /\ UNCHANGED <<pc, cleanVars, indVars, modelVars, signal, net, hasKey>>

PipeNext ==
  \/ \E r \in DOMAIN runs : RunEffect(r)
  \/ \E r \in DOMAIN runs : AlphaSettles(r)
  \/ \E r \in DOMAIN runs : StooqSettles(r)

SpecPipeline == PipeInit /\ [][PipeNext]_vars

\* every fetch settles: the effect's continuation then runs
FairPipeline == SpecPipeline /\ WF_vars(PipeNext)

\* the effect is invoked twice on the one component, the second invocation
\* starting while the first may still await its rows
TwoRunsInit ==
  /\ pc = "pipeline"
  /\ raw = <<>>
  /\ rawIn = <<>>
  /\ deduped = <<>>
  /\ filled = <<>>
  /\ loc = NoLocals
  /\ cleaned = <<>>
  /\ issues = NoIssues
  /\ cleaned2 = <<>>
  /\ issues2 = NoIssues
  /\ arr = <<>>
  /\ ran = {}
  /\ enriched = <<>>
  /\ enr = <<>>
  /\ series = <<>>
  /\ fit = NoFit
  /\ signal = NoSignal
  /\ app = AppInit
  /\ runs = [r \in RunIds |-> IdleRun]
  /\ net = <<>>
  /\ hasKey \in BOOLEAN

SpecTwoRuns == TwoRunsInit /\ [][PipeNext]_vars

Done(r) == r \in DOMAIN runs /\ runs[r].pc = "done"
AllDone == \A r \in DOMAIN runs : runs[r].pc = "done"

\* ------------------------------------------------------------ C23
Asked(r, source) == \E k \in 1..Len(net) : net[k] = Request(r, source)
Tried(r, source) == \E k \in 1..Len(runs[r].tried) : runs[r].tried[k] = source
PrimaryFailed(r) == runs[r].alpha.state = "threw"

\* C23: a started run tries the primary source first; the secondary is tried
\* and requested exactly when the primary attempt has failed, whatever the
\* cause; when the primary returns rows they are the run's rows and the
\* secondary is neither tried nor requested; with no key configured the primary
\* sends no request.
Thm_C23 ==
  \A r \in DOMAIN runs :
    /\ runs[r].pc # "idle" => runs[r].tried # <<>> /\ runs[r].tried[1] = "alpha"
    /\ Tried(r, "stooq") <=> PrimaryFailed(r)
    /\ Asked(r, "stooq") <=> PrimaryFailed(r)
    /\ \A k \in 1..Len(net) :
         net[k] = Request(r, "stooq") => \A j \in 1..Len(net) : net[j] = Request(r, "alpha") => j < k
    /\ runs[r].alpha.state = "returned" =>
         /\ runs[r].pc = "done"
         /\ runs[r].rows = runs[r].alpha.rows
         /\ runs[r].stooq = Pending
    /\ ~hasKey => ~Asked(r, "alpha")
    /\ (hasKey /\ runs[r].pc # "idle") => Asked(r, "alpha")

\* the primary failed on a payload without the time series, the secondary was
\* asked and its rows are the run's
Wit_C23 ==
  /\ Done("first")
  /\ runs["first"].alpha = Rejected("ALPHA_SHAPE")
  /\ runs["first"].tried = <<"alpha", "stooq">>
  /\ net = <<Request("first", "alpha"), Request("first", "stooq")>>
  /\ runs["first"].stooq.state = "returned"
  /\ runs["first"].rows = runs["first"].stooq.rows
  /\ runs["first"].rows # <<>>

FallbackOn(message) ==
  /\ runs["first"].alpha = Rejected(message)
  /\ Asked("first", "stooq")
NoKeyFallbackReached == FallbackOn("NO_ALPHA_KEY") /\ ~Asked("first", "alpha")
HttpFallbackReached == FallbackOn("HTTP_503")
ErrorMessageFallbackReached == FallbackOn("Invalid API call.")
NoteFallbackReached == FallbackOn("API call frequency exceeded.")
PrimaryRowsReached ==
  /\ Done("first")
  /\ runs["first"].alpha.state = "returned"
  /\ runs["first"].rows = DailySeries(MaxDays, 1)
  /\ net = <<Request("first", "alpha")>>

\* ------------------------------------------------------------ C24
\* the messages of the model are whole reasons, none a part of another: a
\* message mentions a reason only by being it
Mentions(message, reason) == message = reason

BothFailed(r) == runs[r].alpha.state = "threw" /\ runs[r].stooq.state = "threw"

\* C24: when the primary and the secondary source have both failed, the error
\* the run ends with reports the failure reason of each of them: the primary's
\* reason is not lost.
Orig_C24 ==
  (Done("first") /\ BothFailed("first")) =>
    /\ Mentions(app.err, runs["first"].alpha.message)
    /\ Mentions(app.err, runs["first"].stooq.message)

\* what the run ends with is the secondary's message alone
SecondaryReasonShown ==
  (Done("first") /\ BothFailed("first")) => app.err = runs["first"].stooq.message

BothFailedReached ==
  /\ Done("first")
  /\ runs["first"].alpha = Rejected("NO_ALPHA_KEY")
  /\ runs["first"].stooq = Rejected("STOOQ_SHAPE")
  /\ app.err = "STOOQ_SHAPE"

\* ------------------------------------------------------------ C25
NothingPublished ==
  /\ app.raw = AppInit.raw
  /\ app.data = AppInit.data
  /\ app.stats = AppInit.stats
  /\ app.metrics = AppInit.metrics
  /\ app.pred = AppInit.pred
  /\ app.signal = AppInit.signal

AllPublished ==
  /\ app.stats # AppInit.stats
  /\ app.metrics # AppInit.metrics
  /\ app.pred # AppInit.pred
  /\ app.signal # AppInit.signal

\* C25: a run is all-or-nothing: when it has ended with err set, none of its
\* results is in the component state; when a result is in the component state,
\* all of them are and err is empty.
Orig_C25 ==
  Done("first") =>
    /\ app.err # "" => NothingPublished
    /\ ~NothingPublished => (AllPublished /\ app.err = "")

\* a failure of the ingestion itself leaves nothing published
IngestionFailureClean ==
  (Done("first") /\ BothFailed("first")) => (NothingPublished /\ app.err # "")

\* an ingested series with zero rows: stats, metrics and forecast are shown
\* together with the error of generateSignal
ZeroRowsHalfPublished ==
  /\ Done("first")
  /\ runs["first"].rows = <<>>
  /\ runs["first"].stooq.state = "returned"
  /\ app.err = SignalError(<<>>)
  /\ app.stats.totalRecords = 0
  /\ Len(app.pred) = Horizon
  /\ app.signal = NoSignal
  /\ ~app.isLoading

\* ------------------------------------------------------------ C26
Ingested(r) == runs[r].alpha.state = "returned" \/ runs[r].stooq.state = "returned"

\* C26: in a run the indicators (and with them models, forecast and signal)
\* are computed from the series the Cleaning Engine returns for the ingested
\* rows, and the cleaning counts shown are those of that cleaning.
Orig_C26 ==
  (Done("first") /\ Ingested("first")) =>
    /\ app.data = InDollars(indicators(CleanDataOf(runs["first"].rows).cleaned), 1)
    /\ app.stats.cleanRecords = Len(CleanDataOf(runs["first"].rows).cleaned)
    /\ app.stats.issues = CleanDataOf(runs["first"].rows).issues

\* what the real-data effect does: indicators of the ingested rows as they
\* came, and counts of zero
NeverCleaned ==
  (Done("first") /\ Ingested("first")) =>
    /\ app.raw = runs["first"].rows
    /\ app.data = InDollars(indicators(runs["first"].rows), 1)
    /\ app.stats.cleanRecords = Len(runs["first"].rows)
    /\ app.stats.issues = NoIssues

\* a day that Stooq lists twice is shown twice, with a duplicate count of 0
DuplicateDayShownReached ==
  /\ Done("first")
  /\ Len(app.data) = MaxDays + 1
  /\ app.data[MaxDays].date = app.data[MaxDays + 1].date
  /\ app.stats.issues.duplicates = 0
  /\ CleanDataOf(runs["first"].rows).issues.duplicates = 1
  /\ app.signal # NoSignal
  /\ app.err = ""

\* ------------------------------------------------------------ C27
\* the component state a run with the outcome of run r leaves when it is the
\* only run
AloneResult(r) ==
  Finally(IF Ingested(r) THEN Publish(AppInit, runs[r].rows)
          ELSE Catch(AppInit, runs[r].stooq.message))

MixtureReached ==
  /\ Done("first") /\ Done("second")
  /\ BothFailed("second")
  /\ app.err = runs["second"].stooq.message
  /\ app.raw = runs["first"].rows
  /\ app.raw # <<>>
  /\ app.signal # NoSignal

\* an earlier failure's message stays up although the later run succeeded
StaleErrorReached ==
  /\ Done("first") /\ Done("second")
  /\ BothFailed("first")
  /\ app.err = runs["first"].stooq.message
  /\ app = [AloneResult("second") EXCEPT !.err = runs["first"].stooq.message]
  /\ app.signal # NoSignal

\* one run alone does leave the state of a single run
OneRunAlone == Done("first") => app = AloneResult("first")

\* ------------------------------------------------------------ C28
Succeeded == app.err = "" /\ app.signal # NoSignal
Failed == app.err # "" /\ app.signal = NoSignal

\* C28: the run of the real-data effect terminates, on success and on every
\* failure path, and from then on isLoading is false and exactly one of the
\* two holds: err is empty and signal is set, or err is a non-empty message
\* and signal is still null.
Thm_C28 ==
  /\ <>Done("first")
  /\ [](Done("first") => (~app.isLoading /\ (Succeeded \/ Failed) /\ ~(Succeeded /\ Failed)))

\* the run has ended in the effect's catch after a successful ingestion
Wit_C28 ==
  /\ Done("first")
  /\ Ingested("first")
  /\ ~app.isLoading
  /\ Failed

SucceededReached == Done("first") /\ ~app.isLoading /\ Succeeded
IngestionFailedReached == Done("first") /\ BothFailed("first") /\ ~app.isLoading /\ Failed

\* two overlapping runs: the later failure is shown with the earlier signal
FailedWithSignalReached ==
  /\ Done("first") /\ Done("second")
  /\ ~app.isLoading
  /\ app.err # ""
  /\ app.signal # NoSignal

====
